---- MODULE Spec2Model ----
(***************************************************************************)
(* OmLx Atlas: the persisted game catalog (GameDatabase, games.json) and   *)
(* the discovery pipeline that feeds it (GameScanner).                     *)
(*                                                                         *)
(* JavaScript values are encoded as follows.                               *)
(*   - an optional object/array/boolean field is a sequence of length 0    *)
(*     (the key is absent / undefined) or 1 (the value);                   *)
(*   - an optional string field is a string, with the sentinels Undefined  *)
(*     and Null for the two falsy non-values;                              *)
(*   - a timestamp is an integer instant of the clock, NoTime for null or  *)
(*     undefined (every ISO string is truthy, NoTime is falsy);            *)
(*   - a game name is a sequence of one-character strings;                 *)
(*   - an id built by string interpolation is the tuple of its parts.      *)
(* Discoverable fields that no operation reads back (executablePath,       *)
(* installPath, platformIds, the native ids of launchers other than Steam) *)
(* are a function of the candidate alone and are left out of the records.  *)
(***************************************************************************)
EXTENDS Integers, Sequences, FiniteSets, TLC

VARIABLES
    gamesFile,   \* contents of games.json: the persisted list of records
    clock,       \* Date.now()
    ops,         \* number of steps taken so far (handlers started, clock ticks)
    lastOp,      \* the operation that produced the current state
    pc,          \* position of the scan in flight
    scanKind,    \* which scan is in flight
    machine,     \* what is installed on this machine (fixed)
    scanIdx,     \* index of the next launcher adapter of scanAllLaunchers
    allApps,     \* scanAllLaunchers' local allApps
    invoked,     \* units of work invoked by the scan in flight, in order
    failedUnits, \* units of the scan in flight that threw or timed out
    pending,     \* deduplicated candidates waiting for enrichment
    scanResult,  \* what the last finished scan handed to its caller
    discovered,  \* <<source, item, id>>: the ids every scan so far gave each item
    runs,        \* how many scans of each kind have finished
    walk,        \* the last call into the filesystem walker and what it returned
    watcher      \* ProcessWatcher: activeSessions, and the minutes it has credited

vars == <<gamesFile, clock, ops, lastOp, pc, scanKind, machine, scanIdx,
          allApps, invoked, failedUnits, pending, scanResult, discovered, runs, walk, watcher>>

scanVars == <<pc, scanKind, scanIdx, allApps, invoked, failedUnits, pending,
              scanResult, discovered, runs>>

-----------------------------------------------------------------------------
(* Bounds of the model *)

MaxOps == 3
MaxList == 2
MaxFailures == 1
MaxScans == 2

-----------------------------------------------------------------------------
(* JavaScript values *)

Undefined == "undefined"
Null == "null"
NoTime == -1
None == <<>>

Some(v) == <<v>>

IsSet(o) == o # None

Val(o) == o[1]

\* a || b on optional objects and arrays: every object, [] included, is truthy
OrObj(a, b) == IF IsSet(a) THEN a ELSE b

\* a || b on strings: undefined, null and '' are falsy
TruthyStr(s) == s \notin {Undefined, Null, ""}

OrStr(a, b) == IF TruthyStr(a) THEN a ELSE b

\* a || b on timestamps
OrTime(a, b) == IF a # NoTime THEN a ELSE b

Max(a, b) == IF a >= b THEN a ELSE b

SeqToSet(s) == { s[i] : i \in 1..Len(s) }

Includes(s, x) == \E i \in 1..Len(s) : s[i] = x

RECURSIVE Filter(_, _)
Filter(s, keep) ==
    IF s = <<>> THEN <<>>
    ELSE IF Head(s) \in keep THEN <<Head(s)>> \o Filter(Tail(s), keep)
    ELSE Filter(Tail(s), keep)

-----------------------------------------------------------------------------
(* Records of the catalog *)

DefaultPlayTime == [totalMinutes |-> 0, sessions |-> <<>>]

DefaultAchievements == [unlocked |-> 0, total |-> 0, list |-> <<>>, lastUpdated |-> NoTime]

DefaultPlaytimeData == [official |-> 0, tracked_locally |-> 0, status |-> "unavailable"]

UnknownStatsSource ==
    [playtimeSource |-> "unknown", lastPlayedSource |-> "unknown",
     achievementsSource |-> "unknown"]

\* the steamAppId of a record that has none, and the appid of a manifest
\* without an "appid" line
NoAppId == -1

\* a freshly discovered candidate: only the discoverable fields are present
Candidate(id, name, launcher, itemType, cover, background) ==
    [id |-> id, name |-> name, launcher |-> launcher, itemType |-> itemType,
     coverImage |-> cover, backgroundImage |-> background, steamAppId |-> NoAppId,
     isFavorite |-> None, categories |-> None, playTime |-> None,
     achievements |-> None, lastPlayed |-> NoTime, addedAt |-> NoTime,
     statsSource |-> None, playtimeData |-> None,
     manualLauncherOverride |-> FALSE]

launcherCategoryMap ==
    [l \in {"steam", "epic", "xbox", "ea", "ubisoft", "gog", "desktop", "manual"} |->
        CASE l = "steam" -> "Steam"
          [] l = "epic" -> "Epic Games"
          [] l = "xbox" -> "Xbox"
          [] l = "ea" -> "EA App"
          [] l = "ubisoft" -> "Ubisoft Connect"
          [] l = "gog" -> "GOG"
          [] l = "desktop" -> "Desktop Apps"
          [] l = "manual" -> "Uncategorized"]

\* games.findIndex(g => g.id === id): 0 stands for -1
FindIndex(games, id) ==
    IF \E i \in 1..Len(games) : games[i].id = id
    THEN CHOOSE i \in 1..Len(games) :
            games[i].id = id /\ \A j \in 1..(i - 1) : games[j].id # id
    ELSE 0

Ids(games) == { games[i].id : i \in 1..Len(games) }

-----------------------------------------------------------------------------
(* GameDatabase: loadGames / saveGames *)

IOOutcome == {"ok", "fail"}

\* the outcomes of one operation's read and write of games.json; a failed
\* write leaves the file as it was, whatever the read returned
IOPairs == { <<"ok", "ok">>, <<"fail", "ok">>, <<"ok", "fail">> }

\* loadGames: a read or parse error is logged and an empty list is returned
loadGames(rd) == IF rd = "ok" THEN gamesFile ELSE <<>>

\* saveGames: a write error is logged and swallowed; the file keeps its contents
saveGames(games, wr) == IF wr = "ok" THEN games ELSE gamesFile

-----------------------------------------------------------------------------
(* GameDatabase.addGames *)

\* categories auto-assigned from the launcher, for new games only
autoCategories(game, isNewGame) ==
    LET given == IF IsSet(game.categories) THEN Val(game.categories) ELSE <<>>
    IN  IF isNewGame /\ game.launcher \in DOMAIN launcherCategoryMap
           /\ ~Includes(given, launcherCategoryMap[game.launcher])
        THEN given \o <<launcherCategoryMap[game.launcher]>>
        ELSE given

\* the gameToSave object literal of addGames
gameToSave(game, isNewGame, now) ==
    [game EXCEPT
        !.lastPlayed = game.lastPlayed,
        !.addedAt = OrTime(game.addedAt, now),
        !.playTime = OrObj(game.playTime, Some(DefaultPlayTime)),
        !.achievements = OrObj(game.achievements, Some(DefaultAchievements)),
        !.categories = Some(autoCategories(game, isNewGame)),
        !.statsSource =
            IF IsSet(game.statsSource)
            THEN Some([playtimeSource |-> OrStr(Val(game.statsSource).playtimeSource, "unknown"),
                       lastPlayedSource |-> OrStr(Val(game.statsSource).lastPlayedSource, "unknown"),
                       achievementsSource |-> OrStr(Val(game.statsSource).achievementsSource, "unknown")])
            ELSE Some(UnknownStatsSource),
        !.playtimeData =
            IF IsSet(game.playtimeData)
            THEN Some([official |-> Val(game.playtimeData).official,
                       tracked_locally |-> Val(game.playtimeData).tracked_locally,
                       status |-> OrStr(Val(game.playtimeData).status, "unavailable")])
            ELSE Some(DefaultPlaytimeData),
        !.itemType = OrStr(game.itemType, "game")]

\* the "preserve user overrides" branch of addGames
preserveOverrides(toSave, existing) ==
    [toSave EXCEPT
        !.isFavorite = IF IsSet(existing.isFavorite) THEN existing.isFavorite ELSE Some(FALSE),
        !.coverImage = OrStr(existing.coverImage, toSave.coverImage),
        !.backgroundImage = OrStr(existing.backgroundImage, toSave.backgroundImage),
        !.itemType = OrStr(existing.itemType, toSave.itemType),
        !.categories = OrObj(existing.categories, toSave.categories),
        !.playTime = OrObj(existing.playTime, toSave.playTime),
        !.achievements = OrObj(existing.achievements, toSave.achievements),
        !.lastPlayed = OrTime(existing.lastPlayed, toSave.lastPlayed)]

\* the loop body without its existingIndex test: every candidate is pushed
mergeOneAlwaysPush(games, game, now) ==
    Append(games, gameToSave(game, FindIndex(games, game.id) = 0, now))

\* one iteration of the loop of addGames
mergeOne(games, game, now) ==
    LET existingIndex == FindIndex(games, game.id)
        toSave == gameToSave(game, existingIndex = 0, now)
    IN  IF existingIndex # 0
        THEN [games EXCEPT ![existingIndex] = preserveOverrides(toSave, games[existingIndex])]
        ELSE Append(games, toSave)

RECURSIVE mergeAll(_, _, _)
mergeAll(games, gamesList, now) ==
    IF gamesList = <<>> THEN games
    ELSE mergeAll(mergeOne(games, Head(gamesList), now), Tail(gamesList), now)

\* addGames(gamesList): load, merge every candidate, save
addGames(gamesList, rd, wr, now) == saveGames(mergeAll(loadGames(rd), gamesList, now), wr)

-----------------------------------------------------------------------------
(* GameDatabase.addGames of database.js, the store the first main process
   (index.js) is built on *)

\* its gameToSave object literal: the candidate's fields, then lastPlayed,
\* addedAt, playTime and achievements
legacyGameToSave(game, now) ==
    [game EXCEPT
        !.lastPlayed = game.lastPlayed,
        !.addedAt = OrTime(game.addedAt, now),
        !.playTime = OrObj(game.playTime, Some(DefaultPlayTime)),
        !.achievements = OrObj(game.achievements, Some(DefaultAchievements))]

\* its "preserve stats if existing" branch
legacyPreserveStats(toSave, existing) ==
    [toSave EXCEPT
        !.playTime = OrObj(existing.playTime, toSave.playTime),
        !.achievements = OrObj(existing.achievements, toSave.achievements),
        !.lastPlayed = OrTime(existing.lastPlayed, toSave.lastPlayed)]

legacyMergeOne(games, game, now) ==
    LET existingIndex == FindIndex(games, game.id)
        toSave == legacyGameToSave(game, now)
    IN  IF existingIndex # 0
        THEN [games EXCEPT ![existingIndex] = legacyPreserveStats(toSave, games[existingIndex])]
        ELSE Append(games, toSave)

RECURSIVE legacyMergeAll(_, _, _)
legacyMergeAll(games, gamesList, now) ==
    IF gamesList = <<>> THEN games
    ELSE legacyMergeAll(legacyMergeOne(games, Head(gamesList), now), Tail(gamesList), now)

legacyAddGames(gamesList, rd, wr, now) ==
    saveGames(legacyMergeAll(loadGames(rd), gamesList, now), wr)

-----------------------------------------------------------------------------
(* GameDatabase: the single-record operations *)

\* addGame(game): the stored record is replaced by the one passed in
addGame(game, rd, wr, now) ==
    LET games == loadGames(rd)
        existingIndex == FindIndex(games, game.id)
        toSave == [game EXCEPT
                      !.addedAt = OrTime(game.addedAt, now),
                      !.playTime = OrObj(game.playTime, Some(DefaultPlayTime)),
                      !.achievements = OrObj(game.achievements, Some(DefaultAchievements))]
    IN  saveGames(IF existingIndex # 0
                  THEN [games EXCEPT ![existingIndex] = toSave]
                  ELSE Append(games, toSave), wr)

\* the shape shared by the update operations: load, find the record by id,
\* change it and save; return without saving when the id is not found
updateRecord(gameId, rd, wr, Change(_)) ==
    LET games == loadGames(rd)
        index == FindIndex(games, gameId)
    IN  IF index # 0
        THEN saveGames([games EXCEPT ![index] = Change(games[index])], wr)
        ELSE gamesFile

updatePlayTime(gameId, minutesToAdd, rd, wr, now) ==
    LET Change(g) ==
            LET pt == Val(OrObj(g.playTime, Some(DefaultPlayTime)))
            IN  [g EXCEPT
                    !.playTime = Some([totalMinutes |-> pt.totalMinutes + minutesToAdd,
                                       sessions |-> Append(pt.sessions,
                                            [date |-> now, duration |-> minutesToAdd])]),
                    !.lastPlayed = now]
    IN  updateRecord(gameId, rd, wr, Change)

updateAchievements(gameId, data, rd, wr, now) ==
    LET Change(g) ==
            [g EXCEPT !.achievements =
                Some([unlocked |-> data.unlocked, total |-> data.total,
                      list |-> data.list, lastUpdated |-> now])]
    IN  updateRecord(gameId, rd, wr, Change)

updateLastPlayed(gameId, rd, wr, now) ==
    LET Change(g) == [g EXCEPT !.lastPlayed = now]
    IN  updateRecord(gameId, rd, wr, Change)

\* !isFavorite: an absent flag counts as false
toggleFavorite(gameId, rd, wr) ==
    LET Change(g) == [g EXCEPT !.isFavorite = Some(~(g.isFavorite = Some(TRUE)))]
    IN  updateRecord(gameId, rd, wr, Change)

deleteGame(gameId, rd, wr) ==
    LET games == loadGames(rd)
    IN  saveGames(Filter(games, { g \in SeqToSet(games) : g.id # gameId }), wr)

updateCoverImage(gameId, imagePath, rd, wr) ==
    LET Change(g) == [g EXCEPT !.coverImage = imagePath]
    IN  updateRecord(gameId, rd, wr, Change)

updateBackgroundImage(gameId, imagePath, rd, wr) ==
    LET Change(g) == [g EXCEPT !.backgroundImage = imagePath]
    IN  updateRecord(gameId, rd, wr, Change)

updateGameLauncher(gameId, newLauncher, rd, wr) ==
    LET Change(g) == [g EXCEPT !.launcher = newLauncher, !.manualLauncherOverride = TRUE]
    IN  updateRecord(gameId, rd, wr, Change)

updateItemType(gameId, itemType, rd, wr) ==
    LET Change(g) == [g EXCEPT !.itemType = itemType]
    IN  updateRecord(gameId, rd, wr, Change)

updateGameCategories(gameId, categories, rd, wr) ==
    LET Change(g) == [g EXCEPT !.categories = Some(categories)]
    IN  updateRecord(gameId, rd, wr, Change)

\* { ...statsSource, ...sourceInfo }: the keys of sourceInfo win
updateStatsSource(gameId, sourceInfo, rd, wr) ==
    LET Change(g) ==
            LET old == Val(OrObj(g.statsSource, Some(UnknownStatsSource)))
            IN  [g EXCEPT !.statsSource =
                    Some([k \in DOMAIN old |->
                            IF k \in DOMAIN sourceInfo THEN sourceInfo[k] ELSE old[k]])]
    IN  updateRecord(gameId, rd, wr, Change)

\* stats.playTime is NoMinutes when the key is undefined
NoMinutes == -1

updateGameStats(gameId, stats, rd, wr) ==
    LET Change(g) ==
            LET g1 == IF stats.playTime # NoMinutes
                      THEN [g EXCEPT !.playTime =
                              Some([Val(OrObj(g.playTime, Some(DefaultPlayTime)))
                                      EXCEPT !.totalMinutes = stats.playTime])]
                      ELSE g
                g2 == IF stats.lastPlayed # NoTime
                      THEN [g1 EXCEPT !.lastPlayed = stats.lastPlayed]
                      ELSE g1
            IN  IF TruthyStr(stats.statsSource)
                THEN [g2 EXCEPT !.statsSource =
                        Some(IF IsSet(g2.statsSource)
                             THEN [Val(g2.statsSource) EXCEPT
                                     !.playtimeSource = stats.statsSource,
                                     !.lastPlayedSource = stats.statsSource]
                             ELSE [playtimeSource |-> stats.statsSource,
                                   lastPlayedSource |-> stats.statsSource,
                                   achievementsSource |-> Undefined])]
                ELSE g2
    IN  updateRecord(gameId, rd, wr, Change)

updateGamePlaytime(gameId, minutes, type, rd, wr) ==
    LET Change(g) ==
            LET pd == Val(OrObj(g.playtimeData, Some(DefaultPlaytimeData)))
                pd2 == IF type = "official"
                       THEN [pd EXCEPT !.official = minutes, !.status = "official"]
                       ELSE [pd EXCEPT
                               !.tracked_locally = pd.tracked_locally + minutes,
                               !.status = IF pd.status = "unavailable"
                                          THEN "tracked_locally" ELSE pd.status]
                pt == Val(OrObj(g.playTime, Some(DefaultPlayTime)))
            IN  [g EXCEPT
                    !.playtimeData = Some(pd2),
                    !.playTime = Some([pt EXCEPT
                        !.totalMinutes = pd2.official + pd2.tracked_locally])]
    IN  updateRecord(gameId, rd, wr, Change)

clearAllGames(wr) == saveGames(<<>>, wr)

\* the part of deleteCategory that touches games.json
deleteCategory(categoryName, rd, wr) ==
    LET games == loadGames(rd)
        Strip(g) ==
            IF IsSet(g.categories) /\ Includes(Val(g.categories), categoryName)
            THEN [g EXCEPT !.categories =
                    Some(Filter(Val(g.categories),
                                SeqToSet(Val(g.categories)) \ {categoryName}))]
            ELSE g
        stripped == [i \in 1..Len(games) |-> Strip(games[i])]
    IN  IF stripped # games THEN saveGames(stripped, wr) ELSE gamesFile

-----------------------------------------------------------------------------
(* GameScanner.deduplicateApps *)

Digits == {"0", "1", "2"}

Spaces == {" "}

\* String.prototype.toLowerCase on the characters used in names
LowerChar(c) ==
    CASE c = "A" -> "a"
      [] c = "B" -> "b"
      [] c = "P" -> "p"
      [] c = "V" -> "v"
      [] OTHER -> c

RECURSIVE SkipWhile(_, _, _)
\* the first index >= i whose character is not in class (Len(s) + 1 if none)
SkipWhile(s, i, class) ==
    IF i <= Len(s) /\ s[i] \in class THEN SkipWhile(s, i + 1, class) ELSE i

RECURSIVE SkipDotGroups(_, _)
\* (\.\d+)* from index i
SkipDotGroups(s, i) ==
    IF i + 1 <= Len(s) /\ s[i] = "." /\ s[i + 1] \in Digits
    THEN SkipDotGroups(s, SkipWhile(s, i + 1, Digits))
    ELSE i

\* where a match of /\s*v?\d+(\.\d+)*\s*/i that starts at index i ends
\* (the index after its last character), 0 when there is no match at i
VersionMatchEnd(s, i) ==
    LET afterSpaces == SkipWhile(s, i, Spaces)
        afterV == IF afterSpaces <= Len(s) /\ LowerChar(s[afterSpaces]) = "v"
                  THEN afterSpaces + 1 ELSE afterSpaces
        afterDigits == SkipWhile(s, afterV, Digits)
    IN  IF afterDigits = afterV THEN 0
        ELSE SkipWhile(s, SkipDotGroups(s, afterDigits), Spaces)

RECURSIVE StripVersions(_, _)
\* name.replace(/\s*v?\d+(\.\d+)*\s*/gi, '') from index i on
StripVersions(s, i) ==
    IF i > Len(s) THEN <<>>
    ELSE IF VersionMatchEnd(s, i) # 0 THEN StripVersions(s, VersionMatchEnd(s, i))
    ELSE <<s[i]>> \o StripVersions(s, i + 1)

RECURSIVE MapLower(_)
MapLower(s) == IF s = <<>> THEN <<>> ELSE <<LowerChar(Head(s))>> \o MapLower(Tail(s))

\* the normalizedName of deduplicateApps, for a name that is a string
normalizedName(name) ==
    LET stripped == StripVersions(name, 1)
    IN  MapLower(Filter(stripped, SeqToSet(stripped) \ Spaces))

launcherPriority == <<"steam", "epic", "xbox", "ea", "ubisoft", "gog", "desktop", "manual">>

\* Array.prototype.indexOf, 0-based, -1 when absent
IndexOf(s, x) ==
    IF Includes(s, x) THEN (CHOOSE i \in 1..Len(s) : s[i] = x /\ \A j \in 1..(i - 1) : s[j] # x) - 1
    ELSE -1

\* app.name.replace throws a TypeError when a candidate has no name
dedupThrows(apps) == \E i \in 1..Len(apps) : ~IsSet(apps[i].name)

\* position of a key in the Map seen (kept as a sequence of entries), 0 if absent
SeenIndex(seen, key) ==
    IF \E i \in 1..Len(seen) : seen[i].key = key
    THEN CHOOSE i \in 1..Len(seen) : seen[i].key = key
    ELSE 0

RECURSIVE dedupLoop(_, _)
dedupLoop(seen, apps) ==
    IF apps = <<>> THEN seen
    ELSE LET app == Head(apps)
             key == normalizedName(Val(app.name))
             at == SeenIndex(seen, key)
         IN  IF at # 0
             THEN IF IndexOf(launcherPriority, app.launcher)
                        < IndexOf(launcherPriority, seen[at].app.launcher)
                  THEN dedupLoop([seen EXCEPT ![at].app = app], Tail(apps))
                  ELSE dedupLoop(seen, Tail(apps))
             ELSE dedupLoop(Append(seen, [key |-> key, app |-> app]), Tail(apps))

\* deduplicateApps(apps), defined when it does not throw
deduplicateApps(apps) ==
    LET seen == dedupLoop(<<>>, apps)
    IN  [i \in 1..Len(seen) |-> seen[i].app]

-----------------------------------------------------------------------------
(* GameScanner: the launcher adapters, the deep scan and the folder walker. *)
(* The machine lists, per source, what the adapter finds on disk: manifests *)
(* for Steam, Epic, EA and GOG, packages that pass the Xbox name filters,   *)
(* game folders for Ubisoft and the deep scan, and executables that pass    *)
(* isValidAppName for the folder walker.  Names are the display names after *)
(* cleanGameName.                                                           *)

Sources == <<"steam", "epic", "xbox", "ea", "ubisoft", "gog">>

RECURSIVE Flatten(_)
\* the candidates an adapter pushed: the items that yielded one, in order
Flatten(opts) ==
    IF opts = <<>> THEN <<>> ELSE Head(opts) \o Flatten(Tail(opts))

\* folder.toLowerCase().replace(/\s+/g, '_')
RECURSIVE FolderKey(_)
FolderKey(folder) ==
    IF folder = <<>> THEN <<>>
    ELSE IF Head(folder) \in Spaces
    THEN <<"_">> \o FolderKey(Tail(folder))
    ELSE <<LowerChar(Head(folder))>> \o FolderKey(Tail(folder))

skipApps == { <<"S", "C", "R">>, <<"S", "L", "R">> }

\* parseSteamManifest without its StateFlags test
parseSteamManifestAnyState(m) ==
    IF m.appid = NoAppId \/ ~IsSet(m.name) THEN None
    ELSE IF Val(m.name) \in skipApps THEN None
    ELSE Some([Candidate(<<"steam", m.appid>>, m.name, "steam", "game",
                         "steamcdn_cover", "steamcdn_hero")
                    EXCEPT !.steamAppId = m.appid])

\* parseSteamManifest: a candidate, or None for null; a manifest without a
\* StateFlags line has the flags 0
parseSteamManifest(m) ==
    IF m.appid = NoAppId \/ ~IsSet(m.name) THEN None
    ELSE IF m.StateFlags # 4 THEN None
    ELSE IF Val(m.name) \in skipApps THEN None
    ELSE Some([Candidate(<<"steam", m.appid>>, m.name, "steam", "game",
                         "steamcdn_cover", "steamcdn_hero")
                    EXCEPT !.steamAppId = m.appid])

epicItem(m) ==
    IF m.bIsIncompleteInstall THEN None
    ELSE Some(Candidate(<<"epic", m.CatalogItemId>>, m.DisplayName, "epic", "game", Null, Null))

xboxItem(m) ==
    Some(Candidate(<<"xbox", m.PackageFamilyName>>, Some(m.Name), "xbox", "game", Null, Null))

eaItem(m) ==
    Some(Candidate(<<"ea", m.id>>, Some(m.folder), "ea", "game", Null, Null))

ubisoftItem(m) ==
    Some(Candidate(<<"ubisoft", FolderKey(m.folder)>>, Some(m.folder), "ubisoft", "game", Null, Null))

gogItem(m) ==
    Some(Candidate(<<"gog", m.gameId>>, m.name, "gog", "game", Null, Null))

\* a deep-scan candidate named after the time of the scan, as scanFolder does
deepItemTimed(m) ==
    Some(Candidate(<<"deep", clock>>, Some(m.folder), "manual", "app", Null, Null))

deepItem(m) ==
    Some(Candidate(<<"deep", FolderKey(m.folder)>>, Some(m.folder), "manual", "app", Null, Null))

\* scanFolder's candidate for one executable: the id is made of the current
\* time and a random number
folderItem(m, now, rnd) ==
    Some(Candidate(<<"custom", now, rnd>>, Some(m.exe), "desktop", "app", Null, Null))

\* what each unit yields per item of the machine; a launcher that is not
\* installed has no items and its adapter returns the empty list
unitItems(mach, unit) ==
    CASE unit = "steam" -> [i \in 1..Len(mach.steam) |-> parseSteamManifest(mach.steam[i])]
      [] unit = "epic" -> [i \in 1..Len(mach.epic) |-> epicItem(mach.epic[i])]
      [] unit = "xbox" -> [i \in 1..Len(mach.xbox) |-> xboxItem(mach.xbox[i])]
      [] unit = "ea" -> [i \in 1..Len(mach.ea) |-> eaItem(mach.ea[i])]
      [] unit = "ubisoft" -> [i \in 1..Len(mach.ubisoft) |-> ubisoftItem(mach.ubisoft[i])]
      [] unit = "gog" -> [i \in 1..Len(mach.gog) |-> gogItem(mach.gog[i])]
      [] unit = "deep" -> [i \in 1..Len(mach.deep) |-> deepItem(mach.deep[i])]

scanUnit(mach, unit) == Flatten(unitItems(mach, unit))

\* the <<source, item, id>> triples of one unit's result
unitRows(mach, unit) ==
    LET items == unitItems(mach, unit)
    IN  { <<unit, i, Val(items[i]).id>> : i \in { j \in 1..Len(items) : IsSet(items[j]) } }

\* scanFolder over the executables of the chosen folder
scanFolder(mach, now, rnds) ==
    Flatten([i \in 1..Len(mach.folder) |-> folderItem(mach.folder[i], now, rnds[i])])

folderRows(mach, now, rnds) ==
    { <<"folder", i, <<"custom", now, rnds[i]>> >> : i \in 1..Len(mach.folder) }

-----------------------------------------------------------------------------
(* GameScanner.enrichGameMetadata *)

\* fetchWithRetry for one candidate; hit says whether the title lookup of
\* fetchOnlineMetadata returned an accepted match
enrichOne(game, hit) ==
    IF ~TruthyStr(game.coverImage) /\ game.itemType # "app" /\ IsSet(game.name) /\ hit
    THEN [game EXCEPT !.coverImage = "lookup_cover", !.backgroundImage = "lookup_hero"]
    ELSE game

\* enrichGameMetadata(games); hits is the set of indices whose lookup succeeds
enrichGameMetadata(games, hits) ==
    [i \in 1..Len(games) |-> enrichOne(games[i], i \in hits)]

-----------------------------------------------------------------------------
(* The machines the model is run on *)

NameAb == <<"A", "b">>

NameAbV1 == <<"A", "b", " ", "v", "1", ".", "0">>

NameP2 == <<"P", " ", "2">>

EmptyMachine ==
    [steam |-> <<>>, epic |-> <<>>, xbox |-> <<>>, ea |-> <<>>, ubisoft |-> <<>>,
     gog |-> <<>>, deep |-> <<>>, folder |-> <<>>, programs |-> <<>>]

\* a title owned on Steam and on Xbox, a standalone folder and a utility
MachineCrossBuy ==
    [EmptyMachine EXCEPT
        !.steam = << [appid |-> 1, name |-> Some(NameAb), StateFlags |-> 4],
                     [appid |-> 2, name |-> Some(NameP2), StateFlags |-> 1026] >>,
        !.xbox = << [PackageFamilyName |-> 7, Name |-> NameAbV1] >>,
        !.deep = << [folder |-> <<"B", " ", "a">>] >>,
        !.folder = << [exe |-> <<"a", "b">>] >>,
        !.programs = << [exe |-> <<"b", "a">>] >>]

\* an Epic manifest without a DisplayName next to a Steam library
MachineEpicNoName ==
    [EmptyMachine EXCEPT
        !.steam = << [appid |-> 1, name |-> Some(NameAb), StateFlags |-> 4] >>,
        !.epic = << [CatalogItemId |-> 5, DisplayName |-> None, bIsIncompleteInstall |-> FALSE] >>,
        !.folder = << [exe |-> <<"a", "b">>] >>]

\* GOG, EA and Ubisoft libraries
MachineOthers ==
    [EmptyMachine EXCEPT
        !.ea = << [id |-> 3, folder |-> NameP2] >>,
        !.ubisoft = << [folder |-> <<"P", " ", "b">>] >>,
        !.gog = << [gameId |-> 4, name |-> Some(NameP2)] >>,
        !.epic = << [CatalogItemId |-> 6, DisplayName |-> Some(NameAb), bIsIncompleteInstall |-> TRUE] >>,
        !.folder = << [exe |-> <<"a", "b">>], [exe |-> <<"A", "b">>] >>,
        !.programs = << [exe |-> <<"a", "b">>] >>]

Machines == {EmptyMachine, MachineCrossBuy, MachineEpicNoName, MachineOthers}

Rand == {1, 2}

-----------------------------------------------------------------------------
(* Initial state: a fresh installation, games.json holds [] *)

NoOp == "init"

ScanKinds == {"full", "apps", "folder"}

NoResult == [status |-> "none", apps |-> <<>>, save |-> "none"]

\* no call into the filesystem walker has been made
NoWalk == [op |-> "none", args |-> <<>>, out |-> <<>>]

\* a ProcessWatcher that tracks nothing and has credited nothing
NoWatcher == [activeSessions |-> <<>>, credited |-> <<>>]

InitOn(mach) ==
    /\ gamesFile = <<>>
    /\ clock = 0
    /\ ops = 0
    /\ lastOp = NoOp
    /\ pc = "idle"
    /\ scanKind = "none"
    /\ machine = mach
    /\ scanIdx = 1
    /\ allApps = <<>>
    /\ invoked = <<>>
    /\ failedUnits = {}
    /\ pending = <<>>
    /\ scanResult = NoResult
    /\ discovered = {}
    /\ runs = [k \in ScanKinds |-> 0]
    /\ watcher = NoWatcher
    /\ walk = NoWalk

Init == InitOn(MachineCrossBuy)

InitScan == \E mach \in Machines : InitOn(mach)

-----------------------------------------------------------------------------
(* Inputs of the database operations *)

\* candidate lists a scan can hand to addGames
Pool ==
    { Val(parseSteamManifest(MachineCrossBuy.steam[1])),
      Val(xboxItem(MachineCrossBuy.xbox[1])),
      enrichOne(Val(xboxItem(MachineCrossBuy.xbox[1])), TRUE) }

Lists(S, n) == UNION { [1..k -> S] : k \in 1..n }

Minutes == {2}

Images == {"user_image"}

NewLaunchers == {"gog"}

ItemTypes == {"game", "app"}

CategoryLists == { <<"Steam", "Mine">> }

CategoryNames == {"Steam"}

AchievementData == { [unlocked |-> 1, total |-> 2, list |-> <<>>] }

SourceInfos == { [playtimeSource |-> "launcher"] }

\* the stats objects of SteamAPIClient.syncPlaytimeWithDatabase and
\* XboxAPI.syncWithDatabase
StatsInputs(now) ==
    { [playTime |-> 0, lastPlayed |-> NoTime, statsSource |-> "steam"],
      [playTime |-> 2, lastPlayed |-> now, statsSource |-> "xbl.io"],
      [playTime |-> NoMinutes, lastPlayed |-> NoTime, statsSource |-> Undefined] }

PlaytimeTypes == {"tracked_locally", "official"}

-----------------------------------------------------------------------------
(* The database operations as steps *)

\* handlers run one at a time, and only while the step budget lasts; the
\* budget counts the handlers started and the ticks of the clock
Ready == pc = "idle" /\ ops < MaxOps

DbStep(name, newFile) ==
    /\ gamesFile' = newFile
    /\ ops' = ops + 1
    /\ lastOp' = name
    /\ UNCHANGED <<clock, machine, walk, watcher, scanVars>>

\* Date.now() advances.  The clock is read by addGames, addGame and
\* scanFolder only, so time that passes while a scan gathers is the same as
\* time that passes before it starts.
Tick ==
    /\ Ready
    /\ clock' = clock + 1
    /\ ops' = ops + 1
    /\ UNCHANGED <<gamesFile, lastOp, machine, walk, watcher, scanVars>>

AddGames ==
    /\ Ready
    /\ \E gamesList \in Lists(Pool, MaxList), io \in IOPairs :
        DbStep("addGames", addGames(gamesList, io[1], io[2], clock))

\* games:addManual
AddManual ==
    /\ Ready
    /\ \E io \in IOPairs :
        LET game == [Candidate(<<"manual", clock>>, Some(NameAb), "manual", Undefined, Null, Null)
                        EXCEPT !.isFavorite = Some(FALSE)]
        IN  DbStep("addGame", addGame(game, io[1], io[2], clock))

UpdatePlayTime ==
    /\ Ready
    /\ \E id \in Ids(gamesFile), m \in Minutes, io \in IOPairs :
        DbStep("updatePlayTime", updatePlayTime(id, m, io[1], io[2], clock))

UpdateAchievements ==
    /\ Ready
    /\ \E id \in Ids(gamesFile), data \in AchievementData, io \in IOPairs :
        DbStep("updateAchievements", updateAchievements(id, data, io[1], io[2], clock))

UpdateLastPlayed ==
    /\ Ready
    /\ \E id \in Ids(gamesFile), io \in IOPairs :
        DbStep("updateLastPlayed", updateLastPlayed(id, io[1], io[2], clock))

ToggleFavorite ==
    /\ Ready
    /\ \E id \in Ids(gamesFile), io \in IOPairs :
        DbStep("toggleFavorite", toggleFavorite(id, io[1], io[2]))

DeleteGame ==
    /\ Ready
    /\ \E id \in Ids(gamesFile), io \in IOPairs :
        DbStep("deleteGame", deleteGame(id, io[1], io[2]))

UpdateCoverImage ==
    /\ Ready
    /\ \E id \in Ids(gamesFile), img \in Images, io \in IOPairs :
        DbStep("updateCoverImage", updateCoverImage(id, img, io[1], io[2]))

UpdateBackgroundImage ==
    /\ Ready
    /\ \E id \in Ids(gamesFile), img \in Images, io \in IOPairs :
        DbStep("updateBackgroundImage", updateBackgroundImage(id, img, io[1], io[2]))

UpdateGameLauncher ==
    /\ Ready
    /\ \E id \in Ids(gamesFile), l \in NewLaunchers, io \in IOPairs :
        DbStep("updateGameLauncher", updateGameLauncher(id, l, io[1], io[2]))

UpdateItemType ==
    /\ Ready
    /\ \E id \in Ids(gamesFile), t \in ItemTypes, io \in IOPairs :
        DbStep("updateItemType", updateItemType(id, t, io[1], io[2]))

UpdateGameCategories ==
    /\ Ready
    /\ \E id \in Ids(gamesFile), cats \in CategoryLists, io \in IOPairs :
        DbStep("updateGameCategories", updateGameCategories(id, cats, io[1], io[2]))

UpdateStatsSource ==
    /\ Ready
    /\ \E id \in Ids(gamesFile), info \in SourceInfos, io \in IOPairs :
        DbStep("updateStatsSource", updateStatsSource(id, info, io[1], io[2]))

UpdateGameStats ==
    /\ Ready
    /\ \E id \in Ids(gamesFile), stats \in StatsInputs(clock), io \in IOPairs :
        DbStep("updateGameStats", updateGameStats(id, stats, io[1], io[2]))

UpdateGamePlaytime ==
    /\ Ready
    /\ \E id \in Ids(gamesFile), m \in Minutes, type \in PlaytimeTypes, io \in IOPairs :
        DbStep("updateGamePlaytime", updateGamePlaytime(id, m, type, io[1], io[2]))

ClearAllGames ==
    /\ Ready
    /\ \E wr \in IOOutcome :
        DbStep("clearAllGames", clearAllGames(wr))

DeleteCategory ==
    /\ Ready
    /\ \E name \in CategoryNames, io \in IOPairs :
        DbStep("deleteCategory", deleteCategory(name, io[1], io[2]))

Next ==
    \/ Tick
    \/ AddGames
    \/ AddManual
    \/ UpdatePlayTime
    \/ UpdateAchievements
    \/ UpdateLastPlayed
    \/ ToggleFavorite
    \/ DeleteGame
    \/ UpdateCoverImage
    \/ UpdateBackgroundImage
    \/ UpdateGameLauncher
    \/ UpdateItemType
    \/ UpdateGameCategories
    \/ UpdateStatsSource
    \/ UpdateGameStats
    \/ UpdateGamePlaytime
    \/ ClearAllGames
    \/ DeleteCategory

Spec == Init /\ [][Next]_vars

-----------------------------------------------------------------------------
(* The catalog of the first main process (index.js over database.js).  Its
   toggleFavorite, updateCoverImage, updateBackgroundImage and deleteGame are
   the same code as above; its addGames is legacyAddGames. *)

LegacyAddGames ==
    /\ Ready
    /\ \E gamesList \in Lists(Pool, MaxList), io \in IOPairs :
        DbStep("addGames", legacyAddGames(gamesList, io[1], io[2], clock))

NextLegacy ==
    \/ Tick
    \/ LegacyAddGames
    \/ ToggleFavorite
    \/ UpdateCoverImage
    \/ UpdateBackgroundImage
    \/ DeleteGame

SpecLegacy == Init /\ [][NextLegacy]_vars

-----------------------------------------------------------------------------
(* GameScanner.scanAllLaunchers, one step per awaited unit of work *)

UnitOutcome == {"ok", "rejected"}

\* the lookups of one enrichment pass: the metadata service answers for
\* every candidate or for none
LookupOutcomes(n) == { {}, 1..n }

\* a scan handler may start: no more than MaxScans scans are run
ScanReady == Ready /\ runs["full"] + runs["apps"] + runs["folder"] < MaxScans

\* no scanAllLaunchers is in flight: its locals hold nothing
NoScanLocals ==
    /\ scanIdx' = 1
    /\ allApps' = <<>>
    /\ invoked' = <<>>
    /\ failedUnits' = {}
    /\ pending' = <<>>

\* games:scan is invoked: the locals of scanAllLaunchers are initialised
ScanStart ==
    /\ ScanReady
    /\ pc' = "adapters"
    /\ scanKind' = "full"
    /\ NoScanLocals
    /\ scanResult' = NoResult
    /\ ops' = ops + 1
    /\ lastOp' = "scanAllLaunchers"
    /\ UNCHANGED <<gamesFile, clock, machine, walk, watcher, discovered, runs>>

\* what the try block around one unit does with the unit's outcome: its
\* games are pushed to allApps, or its rejection (an error thrown by the
\* adapter, or the timeout of withTimeout) is logged and the loop goes on
runUnit(unit, out) ==
    /\ out = "rejected" => Cardinality(failedUnits) < MaxFailures
    /\ invoked' = Append(invoked, unit)
    /\ IF out = "ok"
       THEN /\ allApps' = allApps \o scanUnit(machine, unit)
            /\ discovered' = discovered \cup unitRows(machine, unit)
            /\ failedUnits' = failedUnits
       ELSE /\ allApps' = allApps
            /\ discovered' = discovered
            /\ failedUnits' = failedUnits \cup {unit}

\* the loop over the scanners without its inner try block: a rejection ends
\* the gathering
ScanAdapterAborts ==
    /\ pc = "adapters"
    /\ \E out \in UnitOutcome :
        /\ runUnit(Sources[scanIdx], out)
        /\ pc' = IF out = "rejected" THEN "dedup"
                 ELSE IF scanIdx = Len(Sources) THEN "deep" ELSE "adapters"
    /\ scanIdx' = scanIdx + 1
    /\ UNCHANGED <<gamesFile, clock, ops, lastOp, machine, walk, watcher, scanKind, pending, scanResult, runs>>

\* one iteration of the loop over the scanners
ScanAdapter ==
    /\ pc = "adapters"
    /\ \E out \in UnitOutcome : runUnit(Sources[scanIdx], out)
    /\ scanIdx' = scanIdx + 1
    /\ pc' = IF scanIdx = Len(Sources) THEN "deep" ELSE "adapters"
    /\ UNCHANGED <<gamesFile, clock, ops, lastOp, machine, walk, watcher, scanKind, pending, scanResult, runs>>

\* the deep scan with its own try block
DeepScan ==
    /\ pc = "deep"
    /\ \E out \in UnitOutcome : runUnit("deep", out)
    /\ pc' = "dedup"
    /\ UNCHANGED <<gamesFile, clock, ops, lastOp, machine, walk, watcher, scanKind, scanIdx, pending,
                   scanResult, runs>>

\* deduplicateApps; an error it throws reaches the outer catch, which logs it
\* and returns allApps as gathered
ScanDedup ==
    /\ pc = "dedup"
    /\ IF dedupThrows(allApps)
       THEN /\ scanResult' = [status |-> "returned", apps |-> allApps, save |-> "none"]
            /\ pending' = pending
            /\ runs' = [runs EXCEPT !["full"] = @ + 1]
            /\ pc' = "idle"
       ELSE /\ pending' = deduplicateApps(allApps)
            /\ scanResult' = scanResult
            /\ runs' = runs
            /\ pc' = "enrich"
    /\ UNCHANGED <<gamesFile, clock, ops, lastOp, machine, walk, watcher, scanKind, scanIdx, allApps,
                   invoked, failedUnits, discovered>>

\* enrichGameMetadata resolves, then addGames and return enrichedApps
ScanMerge ==
    /\ pc = "enrich"
    /\ \E hits \in LookupOutcomes(Len(pending)), io \in IOPairs :
        LET enrichedApps == enrichGameMetadata(pending, hits)
        IN  /\ gamesFile' = addGames(enrichedApps, io[1], io[2], clock)
            /\ scanResult' = [status |-> "returned", apps |-> enrichedApps, save |-> io[2]]
    /\ runs' = [runs EXCEPT !["full"] = @ + 1]
    /\ pc' = "idle"
    /\ UNCHANGED <<clock, ops, lastOp, machine, walk, watcher, scanKind, scanIdx, allApps, pending,
                   invoked, failedUnits, discovered>>

-----------------------------------------------------------------------------
(* GameScanner.scanApps and the games:scanCustomFolder handler *)

\* scanApps: walk the program directories, force itemType app, deduplicate
\* and add to the catalog
ScanApps ==
    /\ ScanReady
    /\ \E rnds \in [1..Len(machine.programs) -> Rand], io \in IOPairs :
        LET found == Flatten([i \in 1..Len(machine.programs) |->
                                folderItem(machine.programs[i], clock, rnds[i])])
            detected == [i \in 1..Len(found) |-> [found[i] EXCEPT !.itemType = "app"]]
            uniqueApps == deduplicateApps(detected)
        IN  /\ gamesFile' = addGames(uniqueApps, io[1], io[2], clock)
            /\ scanResult' = [status |-> "returned", apps |-> uniqueApps, save |-> io[2]]
            /\ discovered' = discovered \cup
                    { <<"programs", i, <<"custom", clock, rnds[i]>> >> :
                        i \in 1..Len(machine.programs) }
    /\ scanKind' = "apps"
    /\ runs' = [runs EXCEPT !["apps"] = @ + 1]
    /\ ops' = ops + 1
    /\ lastOp' = "scanApps"
    /\ NoScanLocals
    /\ UNCHANGED <<clock, machine, walk, watcher, pc>>

\* games:scanCustomFolder: scanFolder on the chosen folder; what it detects
\* is enriched and added to the catalog
ScanCustomFolder ==
    /\ ScanReady
    /\ \E rnds \in [1..Len(machine.folder) -> Rand],
          hits \in LookupOutcomes(Len(machine.folder)), io \in IOPairs :
        LET detectedApps == scanFolder(machine, clock, rnds)
        IN  /\ gamesFile' = IF Len(detectedApps) > 0
                            THEN addGames(enrichGameMetadata(detectedApps, hits),
                                          io[1], io[2], clock)
                            ELSE gamesFile
            /\ scanResult' = [status |-> "returned", apps |-> detectedApps,
                              save |-> IF Len(detectedApps) > 0 THEN io[2] ELSE "none"]
            /\ discovered' = discovered \cup folderRows(machine, clock, rnds)
    /\ scanKind' = "folder"
    /\ runs' = [runs EXCEPT !["folder"] = @ + 1]
    /\ ops' = ops + 1
    /\ lastOp' = "scanCustomFolder"
    /\ NoScanLocals
    /\ UNCHANGED <<clock, machine, walk, watcher, pc>>

NextScan ==
    \/ Tick
    \/ ScanStart
    \/ ScanAdapter
    \/ DeepScan
    \/ ScanDedup
    \/ ScanMerge
    \/ ScanApps
    \/ ScanCustomFolder

SpecScan == InitScan /\ [][NextScan]_vars

-----------------------------------------------------------------------------
(* Properties of the catalog *)

\* the record of games that has this id, as a sequence of length 0 or 1
Stored(games, id) == IF FindIndex(games, id) = 0 THEN None ELSE Some(games[FindIndex(games, id)])

totalMinutes(g) == IF IsSet(g.playTime) THEN Val(g.playTime).totalMinutes ELSE 0

\* the user-owned fields of old survive in new
UserFieldsKept(old, new) ==
    /\ IsSet(old.isFavorite) => new.isFavorite = old.isFavorite
    /\ IsSet(old.playTime) => new.playTime = old.playTime
    /\ IsSet(old.achievements) => new.achievements = old.achievements
    /\ old.lastPlayed # NoTime => new.lastPlayed = old.lastPlayed
    /\ TruthyStr(old.coverImage) => new.coverImage = old.coverImage
    /\ TruthyStr(old.backgroundImage) => new.backgroundImage = old.backgroundImage
    /\ TruthyStr(old.itemType) => new.itemType = old.itemType
    /\ IsSet(old.categories) => new.categories = old.categories

\* C1: a step of addGames leaves the user-owned fields (isFavorite, playTime,
\* achievements, lastPlayed, and coverImage, backgroundImage, itemType,
\* categories where set) of every record whose id was already stored as they
\* were.
C1_MergeKeepsUserFields ==
    [][lastOp' = "addGames" =>
        \A id \in Ids(gamesFile) \cap Ids(gamesFile') :
            UserFieldsKept(Val(Stored(gamesFile, id)), Val(Stored(gamesFile', id)))]_vars

\* C2: for every candidate list L, addGames(L) applied to the catalog that
\* addGames(L) has just written leaves that catalog exactly as it is.
C2_MergeIdempotent ==
    \A L \in Lists(Pool, MaxList) :
        LET once == mergeAll(gamesFile, L, clock)
        IN  mergeAll(once, L, clock) = once

\* C3: no two records of the catalog share an id.
C3_IdsUnique ==
    \A i, j \in 1..Len(gamesFile) : gamesFile[i].id = gamesFile[j].id => i = j

\* addGames has run on a catalog that already held the candidate's id (or on a
\* list that names it twice): the record went through the existing-record branch
C3_Witness ==
    /\ lastOp = "addGames"
    /\ ops = 2
    /\ \E i \in 1..Len(gamesFile) :
        gamesFile[i].id = <<"steam", 1>> /\ gamesFile[i].isFavorite = Some(FALSE)

\* C4: no step changes the addedAt of a record whose id stays in the catalog.
C4_AddedAtImmutable ==
    [][\A id \in Ids(gamesFile) \cap Ids(gamesFile') :
        Val(Stored(gamesFile', id)).addedAt = Val(Stored(gamesFile, id)).addedAt]_vars

\* C5: every step other than deleteGame and clearAllGames leaves every stored
\* id in the catalog, whether its read of games.json succeeds or fails.
C5_OnlyExplicitDeletion ==
    [][lastOp' \notin {"deleteGame", "clearAllGames"} =>
        Ids(gamesFile) \subseteq Ids(gamesFile')]_vars

\* C6: playTime.totalMinutes is never negative and no step lowers it for a
\* record whose id stays in the catalog.
C6_PlaytimeMonotone ==
    [][\A id \in Ids(gamesFile) \cap Ids(gamesFile') :
        /\ totalMinutes(Val(Stored(gamesFile', id))) >= 0
        /\ totalMinutes(Val(Stored(gamesFile', id))) >=
                totalMinutes(Val(Stored(gamesFile, id)))]_vars

-----------------------------------------------------------------------------
(* Properties of the scans *)

Units == Sources \o <<"deep">>

FullScanReturned == pc = "idle" /\ scanKind = "full" /\ scanResult.status = "returned"

\* candidate c is in apps, itself or as the candidate deduplication kept for
\* its normalized name
Represented(c, apps) ==
    \E k \in 1..Len(apps) :
        \/ apps[k].id = c.id
        \/ /\ IsSet(c.name)
           /\ IsSet(apps[k].name)
           /\ normalizedName(Val(apps[k].name)) = normalizedName(Val(c.name))

\* what the units that did not fail gathered
Gathered ==
    UNION { SeqToSet(scanUnit(machine, invoked[n])) :
                n \in { k \in 1..Len(invoked) : invoked[k] \notin failedUnits } }

\* C7: a full scan whose save of the catalog failed does not hand its caller
\* a successful result.
C7_WriteFailureSurfaces ==
    (pc = "idle" /\ scanKind = "full" /\ scanResult.save = "fail") =>
        scanResult.status # "returned"

\* C8: when a full scan has returned, every candidate gathered from a unit
\* that did not fail is in the persisted catalog, itself or as the candidate
\* deduplication kept for its name.
C8_NoResultsLost ==
    FullScanReturned => \A c \in Gathered : Represented(c, gamesFile)

RowStable(sources) ==
    \A r1, r2 \in discovered :
        (r1[1] \in sources /\ r1[1] = r2[1] /\ r1[2] = r2[2]) => r1[3] = r2[3]

\* the ids the launcher adapters and the deep scan give the items of the machine
LauncherIds == UNION { { r[3] : r \in unitRows(machine, Units[n]) } : n \in 1..Len(Units) }

-----------------------------------------------------------------------------
(* Properties of deduplication *)

\* a scan pass has ended and its save of the catalog went through
PassWritten == pc = "idle" /\ scanKind \in ScanKinds /\ scanResult.save = "ok"

\* the ids of the candidates the last pass discovered
PassIds ==
    IF scanKind = "full" THEN { allApps[k].id : k \in 1..Len(allApps) }
    ELSE { scanResult.apps[k].id : k \in 1..Len(scanResult.apps) }

\* C11: after a scan pass that wrote the catalog, no two records of the
\* catalog that were both discovered in that pass share a normalized name.
C11_DedupBeforeMerge ==
    PassWritten =>
        \A i, j \in 1..Len(gamesFile) :
            (/\ i # j
             /\ gamesFile[i].id \in PassIds
             /\ gamesFile[j].id \in PassIds
             /\ IsSet(gamesFile[i].name)
             /\ IsSet(gamesFile[j].name)) =>
                normalizedName(Val(gamesFile[i].name)) # normalizedName(Val(gamesFile[j].name))

-----------------------------------------------------------------------------
(* deduplicateApps on candidate lists: the pipeline is entered at the call of
   deduplicateApps with allApps drawn from the lists below *)

MaxCandidates == 3

\* candidates as the adapters build them: a title owned on Steam and on Xbox,
\* a second Steam entry of the same title, a GOG title, and an Epic manifest
\* without a DisplayName
DedupPool ==
    { Val(parseSteamManifest([appid |-> 1, name |-> Some(NameAb), StateFlags |-> 4])),
      Val(parseSteamManifest([appid |-> 3, name |-> Some(<<"a", "b">>), StateFlags |-> 4])),
      Val(xboxItem([PackageFamilyName |-> 7, Name |-> NameAbV1])),
      Val(gogItem([gameId |-> 4, name |-> Some(NameP2)])),
      Val(epicItem([CatalogItemId |-> 5, DisplayName |-> None, bIsIncompleteInstall |-> FALSE])) }

InitDedup ==
    /\ gamesFile = <<>>
    /\ clock = 0
    /\ ops = 1
    /\ lastOp = "scanAllLaunchers"
    /\ pc = "dedup"
    /\ scanKind = "full"
    /\ machine = EmptyMachine
    /\ scanIdx = Len(Sources) + 1
    /\ allApps \in Lists(DedupPool, MaxCandidates)
    /\ invoked = Sources \o <<"deep">>
    /\ failedUnits = {}
    /\ pending = <<>>
    /\ scanResult = NoResult
    /\ discovered = {}
    /\ runs = [k \in ScanKinds |-> 0]
    /\ watcher = NoWatcher
    /\ walk = NoWalk

NextDedup ==
    \/ ScanDedup
    \/ ScanMerge

SpecDedup == InitDedup /\ [][NextDedup]_vars

\* deduplicateApps has been called on allApps
DedupCalled == scanKind = "full" /\ pc \in {"enrich", "idle"}

Rank(c) == IndexOf(launcherPriority, c.launcher)

NormOf(c) == normalizedName(Val(c.name))

\* out holds exactly one candidate of in per normalized name: one of the
\* best-ranked launcher, and the first of them in input order
KeepsBest(in, out) ==
    /\ \A k \in 1..Len(out) : \E i \in 1..Len(in) : in[i] = out[k]
    /\ \A i \in 1..Len(in) :
        Cardinality({ k \in 1..Len(out) : NormOf(out[k]) = NormOf(in[i]) }) = 1
    /\ \A i \in 1..Len(in), k \in 1..Len(out) :
        NormOf(out[k]) = NormOf(in[i]) =>
            /\ Rank(out[k]) <= Rank(in[i])
            /\ (Rank(out[k]) = Rank(in[i]) /\ in[i] # out[k]) =>
                    \E j \in 1..(i - 1) : in[j] = out[k]

\* C12: whenever deduplicateApps has been called on a candidate list it has
\* returned, per distinct normalized name, exactly one candidate: one whose
\* launcher ranks highest among the candidates of that name and, among those
\* of that launcher, the first in input order.
C12_DedupKeepsBest ==
    DedupCalled =>
        IF dedupThrows(allApps) THEN FALSE ELSE KeepsBest(allApps, pending)

Reorderings(n) == { f \in [1..n -> 1..n] : \A a, b \in 1..n : f[a] = f[b] => a = b }

\* C13: deduplicateApps returns the same set of candidates for every
\* permutation of the list it was called on.
C13_DedupOrderIndependent ==
    (DedupCalled /\ ~dedupThrows(allApps)) =>
        \A f \in Reorderings(Len(allApps)) :
            SeqToSet(deduplicateApps([i \in 1..Len(allApps) |-> allApps[f[i]]]))
                = SeqToSet(pending)

-----------------------------------------------------------------------------
(* GameScanner.isValidAppName: file names and directory paths are strings *)

CharAt(s, i) == SubSeq(s, i, i)

Chars(s) == { CharAt(s, i) : i \in 1..Len(s) }

UpperCase == "ABCDEFGHIJKLMNOPQRSTUVWXYZ"

LowerCase == "abcdefghijklmnopqrstuvwxyz"

LowerLetters == Chars(LowerCase)

DecimalDigits == Chars("0123456789")

\* [a-f0-9]
HexChars == Chars("abcdef0123456789")

\* \w restricted to lower case, which is [a-z0-9_]
WordChars == LowerLetters \cup DecimalDigits \cup {"_"}

toLowerChar(c) ==
    IF \E i \in 1..Len(UpperCase) : CharAt(UpperCase, i) = c
    THEN CharAt(LowerCase, CHOOSE i \in 1..Len(UpperCase) : CharAt(UpperCase, i) = c)
    ELSE c

RECURSIVE toLowerCase(_)
\* String.prototype.toLowerCase
toLowerCase(s) ==
    IF Len(s) = 0 THEN "" ELSE toLowerChar(CharAt(s, 1)) \o toLowerCase(SubSeq(s, 2, Len(s)))

\* String.prototype.includes
includes(s, sub) ==
    \E i \in 1..(Len(s) - Len(sub) + 1) : SubSeq(s, i, i + Len(sub) - 1) = sub

\* String.prototype.startsWith
startsWith(s, prefix) ==
    Len(prefix) <= Len(s) /\ SubSeq(s, 1, Len(prefix)) = prefix

\* String.prototype.endsWith
endsWith(s, suffix) ==
    Len(suffix) <= Len(s) /\ SubSeq(s, Len(s) - Len(suffix) + 1, Len(s)) = suffix

\* how many characters of s are in class: (s.match(/[class]/g) || []).length
CountIn(s, class) == Cardinality({ i \in 1..Len(s) : CharAt(s, i) \in class })

\* /first.*second/: first occurs and second occurs after it
MatchesThen(s, first, second) ==
    \E i \in 1..(Len(s) - Len(first) + 1) :
        /\ SubSeq(s, i, i + Len(first) - 1) = first
        /\ includes(SubSeq(s, i + Len(first), Len(s)), second)

\* /\bword\b/: word occurs with no word character on either side
MatchesWholeWord(s, word) ==
    \E i \in 1..(Len(s) - Len(word) + 1) :
        /\ SubSeq(s, i, i + Len(word) - 1) = word
        /\ i = 1 \/ CharAt(s, i - 1) \notin WordChars
        /\ i + Len(word) > Len(s) \/ CharAt(s, i + Len(word)) \notin WordChars

\* s has a run of n consecutive characters of class starting at index i
RunAt(s, i, n, class) ==
    /\ i + n - 1 <= Len(s)
    /\ \A j \in i..(i + n - 1) : CharAt(s, j) \in class

\* /^[class]{min,}\.exe$/ on a lower-cased file name
MatchesStemOf(s, class, min) ==
    /\ endsWith(s, ".exe")
    /\ Len(s) - 4 >= min
    /\ RunAt(s, 1, Len(s) - 4, class)

systemFolders ==
    { "c:\\windows", "c:\\programdata", "c:\\system volume information",
      "c:\\$recycle.bin", "winsx", "system32", "syswow64", "drivers", "winsxs" }

\* /[a-f0-9]{8}-[a-f0-9]{4}-/
MatchesGuidPrefix(folder) ==
    \E i \in 1..Len(folder) :
        /\ RunAt(folder, i, 8, HexChars)
        /\ i + 13 <= Len(folder)
        /\ CharAt(folder, i + 8) = "-"
        /\ RunAt(folder, i + 9, 4, HexChars)
        /\ CharAt(folder, i + 13) = "-"

\* /[a-z0-9_]{13,}/
MatchesAppxHash(folder) ==
    \E i \in 1..Len(folder) : RunAt(folder, i, 13, WordChars)

microsoftSystemApps ==
    { "searchui", "cortana", "edge", "dwm", "iexplore", "winrar", "windows.ui" }

utilityFolders ==
    { "redist", "redistributables", "_commonredist", "support", "tools", "bin",
      "utils", "utilities", "prerequisites", "directx", "vcredist", "dotnet", "physx" }

\* the patterns of comprehensiveBlacklist that are a plain fragment: /fragment/i
blacklistFragments ==
    { "installer", "autoupdate", "delta.exe", "helper", "vcredist", "dotnet", "runtime",
      "anticheat", "antivirus", "firewall", "security", "scanner", "malware",
      "overlay", "service.exe", "svchost",
      "redistributable", "framework", "shortcut", "readme", "license", "diagnostic",
      "troubleshoot", "support",
      "config", "handler", "dialog", "client", "x64", "x86", "setup", "benchmark",
      "bootstrapper", "plugin", "transcoder", "fossilize", "query", "cleanup", "adapt",
      "instance", "install", "placeholder", "detector", "selector", "realtek", "addon",
      "host",
      "server", "daemon", "agent",
      "debug", "test", "demo",
      "tool", "utility", "manager", "monitor", "console",
      "redist", "directx", "physx",
      "eac", "battleye", "vanguard", "punkbuster" }

\* /^unins\d*\.exe$/
MatchesUninstaller(name) ==
    /\ startsWith(name, "unins")
    /\ endsWith(name, ".exe")
    /\ Len(name) >= 9
    /\ \A i \in 6..(Len(name) - 4) : CharAt(name, i) \in DecimalDigits

\* comprehensiveBlacklist.some(pattern => pattern.test(name))
comprehensiveBlacklist(name) ==
    \/ MatchesUninstaller(name)
    \/ startsWith(name, "setup")
    \/ \E prefix \in {"patch", "update", "upgrade"} : startsWith(name, prefix)
    \/ MatchesThen(name, "launcher", "helper")
    \/ MatchesThen(name, "crash", "report")
    \/ MatchesWholeWord(name, "win")
    \/ MatchesThen(name, "steam", "service")
    \/ MatchesThen(name, "origin", "service")
    \/ \E fragment \in blacklistFragments : includes(name, fragment)

\* the three patterns of step 4; each has the i flag, so testing exeName is
\* testing its lower-cased form
guidLikeName(exeName) ==
    LET lower == toLowerCase(exeName)
    IN  \/ MatchesStemOf(lower, HexChars, 8)
        \/ Len(lower) = 40 /\ MatchesStemOf(lower, HexChars \cup {"-"}, 36)
        \/ MatchesStemOf(lower, DecimalDigits, 10)

genericNames == { "app.exe", "main.exe", "run.exe", "start.exe", "launcher.exe", "game.exe" }

toolKeywords ==
    { "winrar", "winzip", "7z", "notepad", "paint", "calc", "explorer",
      "powershell", "cmd", "bat", "dll", "sys", "drv", "scr",
      "vbscript", "javascript", "perl", "python", "java",
      "installer", "editor", "viewer", "converter", "codec",
      "plugin", "extension", "module", "addin" }

trustedFolders ==
    { "steamapps\\common", "epic games", "xboxgames", "gog games", "ea games",
      "ubisoft game launcher" }

knownApps ==
    { "spotify", "discord", "slack", "vscode", "chrome", "firefox",
      "chatgpt", "telegram", "whatsapp", "zoom", "teams", "obs",
      "photoshop", "illustrator", "premiere", "aftereffects",
      "notion", "obsidian", "blender", "unity", "unreal", "code" }

\* the closing heuristics: alphaRatio < 0.6, digitCount > 5, specialCount > 3
failsHeuristics(name) ==
    \/ 10 * CountIn(name, LowerLetters) < 6 * Len(name)
    \/ CountIn(name, DecimalDigits) > 5
    \/ Len(name) - CountIn(name, WordChars \cup {"-", "."}) > 3

isValidAppName(exeName, folderPath) ==
    LET name == toLowerCase(exeName)
        folder == toLowerCase(folderPath)
        isTrusted == \E t \in trustedFolders : includes(folder, t)
    IN  IF \E sys \in systemFolders : includes(folder, sys) THEN FALSE
        ELSE IF MatchesGuidPrefix(folder) THEN FALSE
        ELSE IF MatchesAppxHash(folder) /\ includes(folder, "microsoft") THEN FALSE
        ELSE IF \E m \in microsoftSystemApps : includes(name, m) THEN FALSE
        ELSE IF \E util \in utilityFolders : includes(folder, util) THEN FALSE
        ELSE IF comprehensiveBlacklist(name) THEN FALSE
        ELSE IF guidLikeName(exeName) THEN FALSE
        ELSE IF exeName \in genericNames THEN FALSE
        ELSE IF \E tool \in toolKeywords : includes(name, tool) THEN FALSE
        ELSE IF \E app \in knownApps : includes(name, app) THEN TRUE
        ELSE IF Len(name) < 4 THEN FALSE
        ELSE IF ~isTrusted /\ failsHeuristics(name) THEN FALSE
        ELSE TRUE

-----------------------------------------------------------------------------
(* The classifier on its own: one call of isValidAppName per behaviour *)

\* file names handed to the classifier by scanFolder and findExecutables
ExeNames ==
    { "Spotify.exe", "spotify.exe", "SpotifySetup.exe", "Discord2024123456.exe",
      "game.exe", "Game.exe", "Launcher.exe", "Hades.exe", "hades.exe",
      "unins000.exe", "vcredist2019.exe", "a1b2c3d4e5f6g7h8.exe", "deadbeef01.exe" }

\* directories the walkers can be in when they meet a file
FolderPaths ==
    { "C:\\Games\\MyGame", "c:\\games\\mygame", "D:\\Games\\Hades\\Tools",
      "D:\\SteamLibrary\\steamapps\\common\\Hades",
      "C:\\Program Files\\Epic Games\\Fortnite",
      "C:\\Users\\u\\AppData\\Local\\Spotify",
      "C:\\Program Files\\WindowsApps\\Microsoft.App_8wekyb3d8bbwe",
      "C:\\Windows\\System32", "C:\\WINDOWS", "C:\\ProgramData\\App",
      "C:\\System Volume Information", "D:\\System Volume Information",
      "D:\\$Recycle.Bin", "D:\\Backup\\WinSxS" }

InitClassifier ==
    /\ gamesFile = <<>>
    /\ clock = 0
    /\ ops = 0
    /\ lastOp = NoOp
    /\ pc = "idle"
    /\ scanKind = "none"
    /\ machine = EmptyMachine
    /\ scanIdx = 1
    /\ allApps = <<>>
    /\ invoked = <<>>
    /\ failedUnits = {}
    /\ pending = <<>>
    /\ scanResult = NoResult
    /\ discovered = {}
    /\ runs = [k \in ScanKinds |-> 0]
    /\ watcher = NoWatcher
    /\ \E exeName \in ExeNames, folderPath \in FolderPaths :
        walk = [op |-> "called", args |-> <<exeName, folderPath>>, out |-> <<>>]

\* the call returns
Classify ==
    /\ walk.op = "called"
    /\ walk' = [walk EXCEPT !.op = "isValidAppName",
                            !.out = <<isValidAppName(walk.args[1], walk.args[2])>>]
    /\ UNCHANGED <<gamesFile, clock, ops, lastOp, pc, scanKind, machine, scanIdx, allApps,
                   invoked, failedUnits, pending, scanResult, discovered, runs, watcher>>

NextClassifier == Classify

SpecClassifier == InitClassifier /\ [][NextClassifier]_vars

Classified == walk.op = "isValidAppName"

\* the system-root fragments of the hard path reject
SystemRootFragments ==
    { "c:\\windows", "c:\\programdata", "system volume information", "$recycle.bin",
      "system32", "syswow64", "winsxs", "drivers" }

\* C14: whenever the lower-cased containing directory contains a system-root
\* fragment, isValidAppName returns false, whatever the file name is
C14_HardPathRejectAbsolute ==
    (/\ Classified
     /\ \E fragment \in SystemRootFragments : includes(toLowerCase(walk.args[2]), fragment))
    => walk.out = <<FALSE>>

\* C15: isValidAppName returns true for every file name that contains a
\* whitelisted application keyword, whatever the directory and whatever else
\* the name matches
C15_WhitelistUnconditional ==
    (/\ Classified
     /\ \E app \in knownApps : includes(toLowerCase(walk.args[1]), app))
    => walk.out = <<TRUE>>

\* C16: changing only the letter case of the file name or of the directory
\* never changes the result of isValidAppName
C16_CaseInsensitive ==
    Classified =>
        \A exeName \in ExeNames, folderPath \in FolderPaths :
            (/\ toLowerCase(exeName) = toLowerCase(walk.args[1])
             /\ toLowerCase(folderPath) = toLowerCase(walk.args[2]))
            => isValidAppName(exeName, folderPath) = walk.out[1]

-----------------------------------------------------------------------------
(* GameScanner.deepScanPC and findExecutables over the files of a disk.    *)
(* A directory is the sequence of the components of its path; a file is a  *)
(* record [dir, file, size] with the size in half megabytes. A directory   *)
(* exists when a file lies in it or below it.                              *)

RECURSIVE pathJoin(_)
\* path.join of the components
pathJoin(parts) ==
    IF Len(parts) = 0 THEN ""
    ELSE IF Len(parts) = 1 THEN parts[1]
    ELSE parts[1] \o "\\" \o pathJoin(Tail(parts))

lowerParts(parts) == [i \in 1..Len(parts) |-> toLowerCase(parts[i])]

\* dir is root or lies below it; file names of the disk are case-insensitive
IsUnder(dir, root) ==
    Len(root) <= Len(dir) /\ lowerParts(SubSeq(dir, 1, Len(root))) = lowerParts(root)

\* fs.existsSync(dir)
existsSync(disk, dir) == \E f \in disk : IsUnder(f.dir, dir)

\* the entries of fs.readdirSync(dir) that are directories
subdirectories(disk, dir) ==
    { SubSeq(f.dir, 1, Len(dir) + 1) :
        f \in { g \in disk : IsUnder(g.dir, dir) /\ Len(g.dir) > Len(dir) } }

\* the entries of fs.readdirSync(dir) that are files
filesIn(disk, dir) == { f \in disk : Len(f.dir) = Len(dir) /\ IsUnder(f.dir, dir) }

\* the files of directory that pass item.endsWith('.exe') and isValidAppName
validExecutables(disk, directory) ==
    { f \in filesIn(disk, directory) :
        endsWith(f.file, ".exe") /\ isValidAppName(f.file, pathJoin(directory)) }

RECURSIVE findCandidatesRecursive(_, _, _)
findCandidatesRecursive(disk, directory, depth) ==
    validExecutables(disk, directory)
    \cup (IF depth > 0
          THEN UNION { findCandidatesRecursive(disk, sub, depth - 1) :
                        sub \in subdirectories(disk, directory) }
          ELSE {})

\* sizeMB >= 0.5
HalfMegabyte == 1

\* findExecutables(directory, depth): the largest candidate, or nothing
findExecutables(disk, directory, depth) ==
    LET candidates ==
            { f \in validExecutables(disk, directory) : f.size >= HalfMegabyte }
            \cup (IF depth > 0
                  THEN UNION { findCandidatesRecursive(disk, sub, depth - 1) :
                                sub \in subdirectories(disk, directory) }
                  ELSE {})
    IN  IF candidates = {} THEN {}
        ELSE { CHOOSE f \in candidates : \A g \in candidates : g.size <= f.size }

drives == <<"C:", "D:", "E:", "F:">>

\* commonDirs; homedir is os.homedir()
commonDirs(homedir) ==
    << <<"Games">>,
       <<"Game">>,
       <<"My Games">>,
       <<"SteamLibrary", "steamapps", "common">>,
       <<"Program Files", "Epic Games">>,
       <<"Program Files (x86)", "Ubisoft", "Ubisoft Game Launcher", "games">>,
       homedir \o <<"Games">>,
       homedir \o <<"AppData", "Local", "Games">> >>

neverScan ==
    { "c:\\windows", "c:\\programdata", "c:\\program files", "c:\\program files (x86)",
      "c:\\system volume information" }

\* (dir.includes(':')) ? dir : path.join(drive, dir)
fullPath(drive, dir) ==
    IF includes(pathJoin(dir), ":") THEN dir ELSE <<drive>> \o dir

\* the directories deepScanPC reads: those that pass the neverScan test
scannedPaths(homedir) ==
    { root \in { fullPath(drives[i], commonDirs(homedir)[j]) :
                    i \in 1..Len(drives), j \in 1..Len(commonDirs(homedir)) } :
        ~\E never \in neverScan : startsWith(toLowerCase(pathJoin(root)), never) }

RECURSIVE spacesToUnderscore(_)
\* replace(/\s+/g, '_')
spacesToUnderscore(s) ==
    IF Len(s) = 0 THEN ""
    ELSE IF CharAt(s, 1) # " " THEN CharAt(s, 1) \o spacesToUnderscore(SubSeq(s, 2, Len(s)))
    ELSE IF Len(s) > 1 /\ CharAt(s, 2) = " " THEN spacesToUnderscore(SubSeq(s, 2, Len(s)))
    ELSE "_" \o spacesToUnderscore(SubSeq(s, 2, Len(s)))

\* the candidate deepScanPC pushes for one folder of a scanned directory
deepCandidate(folderPath, mainExe) ==
    [id |-> <<"deep", spacesToUnderscore(toLowerCase(folderPath[Len(folderPath)]))>>,
     executablePath |-> mainExe.dir \o <<mainExe.file>>,
     installPath |-> folderPath,
     launcher |-> "manual",
     itemType |-> "app"]

\* the body of deepScanPC's loops for one directory
scanCommonDir(disk, root) ==
    IF ~existsSync(disk, root) THEN {}
    ELSE UNION { { deepCandidate(folderPath, mainExe) :
                     mainExe \in { f \in findExecutables(disk, folderPath, 1) :
                                     isValidAppName(f.file, pathJoin(folderPath)) } } :
                 folderPath \in subdirectories(disk, root) }

\* the candidates deepScanPC returns (a directory reached through several
\* drives contributes its candidates once per drive; the set forgets that)
deepScanPC(disk, homedir) ==
    UNION { scanCommonDir(disk, root) : root \in scannedPaths(homedir) }

-----------------------------------------------------------------------------
(* The deep scan on its own: one call of deepScanPC per behaviour *)

\* files that may be on the drives
DiskPool ==
    { [dir |-> <<"C:", "Games", "Hades">>, file |-> "Hades.exe", size |-> 4],
      [dir |-> <<"C:", "Games", "Hades", "Content">>, file |-> "Engine.exe", size |-> 9],
      [dir |-> <<"C:", "Program Files", "Epic Games", "Fortnite">>, file |-> "Fortnite.exe", size |-> 4],
      [dir |-> <<"D:", "Program Files", "Epic Games", "Fortnite">>, file |-> "Fortnite.exe", size |-> 4],
      [dir |-> <<"C:", "Program Files", "Krita">>, file |-> "Krita.exe", size |-> 4],
      [dir |-> <<"C:", "Windows", "System32", "config", "systemprofile", "Games", "Celeste">>,
       file |-> "Celeste.exe", size |-> 4],
      [dir |-> <<"D:", "Windows", "ServiceProfiles", "LocalService", "Games", "Celeste">>,
       file |-> "Celeste.exe", size |-> 4],
      [dir |-> <<"C:", "Users", "u", "Games", "Celeste">>, file |-> "Celeste.exe", size |-> 4] }

\* where Windows is installed (%SystemRoot%) and where os.homedir() points:
\* an ordinary account, the home of the SYSTEM account, and the home of the
\* LocalService account of a Windows installed on D:
Environments ==
    { [SystemRoot |-> <<"C:", "Windows">>, homedir |-> <<"C:", "Users", "u">>],
      [SystemRoot |-> <<"C:", "Windows">>,
       homedir |-> <<"C:", "Windows", "System32", "config", "systemprofile">>],
      [SystemRoot |-> <<"D:", "Windows">>,
       homedir |-> <<"D:", "Windows", "ServiceProfiles", "LocalService">>] }

InitDeep ==
    /\ gamesFile = <<>>
    /\ clock = 0
    /\ ops = 0
    /\ lastOp = NoOp
    /\ pc = "idle"
    /\ scanKind = "none"
    /\ machine = EmptyMachine
    /\ scanIdx = 1
    /\ allApps = <<>>
    /\ invoked = <<>>
    /\ failedUnits = {}
    /\ pending = <<>>
    /\ scanResult = NoResult
    /\ discovered = {}
    /\ runs = [k \in ScanKinds |-> 0]
    /\ watcher = NoWatcher
    /\ \E disk \in SUBSET DiskPool, env \in Environments :
        walk = [op |-> "called", args |-> <<disk, env>>, out |-> <<>>]

\* the call returns
DeepScanPC ==
    /\ walk.op = "called"
    /\ walk' = [walk EXCEPT !.op = "deepScanPC",
                            !.out = <<deepScanPC(walk.args[1], walk.args[2].homedir)>>]
    /\ UNCHANGED <<gamesFile, clock, ops, lastOp, pc, scanKind, machine, scanIdx, allApps,
                   invoked, failedUnits, pending, scanResult, discovered, runs, watcher>>

NextDeep == DeepScanPC

SpecDeep == InitDeep /\ [][NextDeep]_vars

DeepScanned == walk.op = "deepScanPC"

\* the curated game directories below Program Files
CuratedDirs ==
    { <<"Program Files", "Epic Games">>,
      <<"Program Files (x86)", "Ubisoft", "Ubisoft Game Launcher", "games">> }

\* path lies in Program Files of the drive outside the curated game directories
UnderRawProgramFiles(path, drive) ==
    /\ IsUnder(path, <<drive, "Program Files">>) \/ IsUnder(path, <<drive, "Program Files (x86)">>)
    /\ ~\E dir \in CuratedDirs : IsUnder(path, <<drive>> \o dir)

\* path lies under the Windows directory, ProgramData, a System Volume
\* Information directory or raw Program Files
UnderSystemDirectory(path, SystemRoot) ==
    \/ IsUnder(path, SystemRoot)
    \/ IsUnder(path, <<SystemRoot[1], "ProgramData">>)
    \/ \E i \in 1..Len(drives) : IsUnder(path, <<drives[i], "System Volume Information">>)
    \/ UnderRawProgramFiles(path, SystemRoot[1])

\* C17: no candidate returned by deepScanPC has its executablePath under an
\* OS system directory, whatever is on the drives and wherever the home
\* directory is
C17_DeepScanAvoidsSystemDirs ==
    DeepScanned =>
        \A c \in walk.out[1] : ~UnderSystemDirectory(c.executablePath, walk.args[2].SystemRoot)

\* C18: deepScanPC yields nothing from C:\Windows, C:\ProgramData and raw
\* C:\Program Files, and yields the games of the curated directories below
\* Program Files of every drive, C:\Program Files\Epic Games among them
C18_DeepScanCuratedDirs ==
    DeepScanned =>
        /\ \A c \in walk.out[1] :
            /\ ~IsUnder(c.executablePath, <<"C:", "Windows">>)
            /\ ~IsUnder(c.executablePath, <<"C:", "ProgramData">>)
            /\ ~UnderRawProgramFiles(c.executablePath, "C:")
        /\ \A i \in 1..Len(drives), dir \in CuratedDirs :
            scanCommonDir(walk.args[1], <<drives[i]>> \o dir) \subseteq walk.out[1]

-----------------------------------------------------------------------------
(* Properties of the provenance labels and of itemType *)

ProvenanceLabels == {"launcher", "atlas", "unknown"}

\* C19: in every persisted record each of statsSource.playtimeSource,
\* statsSource.lastPlayedSource and statsSource.achievementsSource is one of
\* launcher, atlas, unknown
C19_ProvenanceLabelsEnumerated ==
    \A i \in 1..Len(gamesFile) :
        IsSet(gamesFile[i].statsSource) =>
            /\ Val(gamesFile[i].statsSource).playtimeSource \in ProvenanceLabels
            /\ Val(gamesFile[i].statsSource).lastPlayedSource \in ProvenanceLabels
            /\ Val(gamesFile[i].statsSource).achievementsSource \in ProvenanceLabels

\* the itemType the launcher of a record stands for
LauncherItemType(launcher) == IF launcher \in {"desktop", "manual"} THEN "app" ELSE "game"

\* C20: a record enters the catalog with the itemType its launcher stands
\* for, and afterwards no step other than updateItemType changes its itemType
C20_ItemTypeFixedByLauncher ==
    [][\A id \in Ids(gamesFile') :
        IF id \in Ids(gamesFile)
        THEN \/ lastOp' = "updateItemType"
             \/ Val(Stored(gamesFile', id)).itemType = Val(Stored(gamesFile, id)).itemType
        ELSE Val(Stored(gamesFile', id)).itemType =
                LauncherItemType(Val(Stored(gamesFile', id)).launcher)]_vars

-----------------------------------------------------------------------------
(* The Steam adapter on its own: one scan of a library per behaviour *)

MaxManifests == 2

\* the app manifests a Steam library can hold
Manifests ==
    [appid : {NoAppId, 1, 2},
     name : {None, Some(NameAb), Some(<<"S", "C", "R">>)},
     StateFlags : {0, 4, 6}]

InitSteam ==
    /\ gamesFile = <<>>
    /\ clock = 0
    /\ ops = 0
    /\ lastOp = NoOp
    /\ pc = "idle"
    /\ scanKind = "none"
    /\ \E library \in Lists(Manifests, MaxManifests) :
        machine = [EmptyMachine EXCEPT !.steam = library]
    /\ scanIdx = 1
    /\ allApps = <<>>
    /\ invoked = <<>>
    /\ failedUnits = {}
    /\ pending = <<>>
    /\ scanResult = NoResult
    /\ discovered = {}
    /\ runs = [k \in ScanKinds |-> 0]
    /\ watcher = NoWatcher
    /\ walk = [op |-> "called", args |-> <<>>, out |-> <<>>]

\* scanSteam returns the candidates of the manifests of the library
ScanSteam ==
    /\ walk.op = "called"
    /\ walk' = [walk EXCEPT !.op = "scanSteam", !.out = scanUnit(machine, "steam")]
    /\ UNCHANGED <<gamesFile, clock, ops, lastOp, pc, scanKind, machine, scanIdx, allApps,
                   invoked, failedUnits, pending, scanResult, discovered, runs, watcher>>

NextSteam == ScanSteam

SpecSteam == InitSteam /\ [][NextSteam]_vars

\* the manifest has an app id and a name, is fully installed (StateFlags 4)
\* and is not on the skip list
Eligible(m) ==
    /\ m.appid # NoAppId
    /\ IsSet(m.name)
    /\ m.StateFlags = 4
    /\ Val(m.name) \notin skipApps

EligibleManifests == SelectSeq(machine.steam, Eligible)

\* C21: the Steam adapter yields one candidate per eligible manifest and
\* none for any other manifest; each candidate has launcher steam, itemType
\* game, the id steam_<appid> and the app id of its manifest
C21_SteamAdapterExact ==
    walk.op = "scanSteam" =>
        /\ Len(walk.out) = Len(EligibleManifests)
        /\ \A k \in 1..Len(walk.out) :
            /\ walk.out[k].id = <<"steam", EligibleManifests[k].appid>>
            /\ walk.out[k].name = EligibleManifests[k].name
            /\ walk.out[k].launcher = "steam"
            /\ walk.out[k].itemType = "game"
            /\ walk.out[k].steamAppId = EligibleManifests[k].appid

\* a library with an eligible and a partly installed manifest has been scanned
C21_Witness ==
    /\ walk.op = "scanSteam"
    /\ Len(walk.out) = 1
    /\ Len(machine.steam) = 2
    /\ \E i \in 1..2 : machine.steam[i].StateFlags = 6 /\ machine.steam[i].appid # NoAppId
                        /\ IsSet(machine.steam[i].name)

-----------------------------------------------------------------------------
(* The playtime tracker writing while scanAllLaunchers is in flight *)

MaxTrackerWrites == 1

\* ProcessWatcher.checkSessionEnd credits a finished session while the scan
\* is waiting for an adapter, the deep scan or the artwork lookups; the
\* write is logged in watcher.credited when it reaches games.json
TrackerWrite ==
    /\ pc # "idle"
    /\ Len(watcher.credited) < MaxTrackerWrites
    /\ \E id \in Ids(gamesFile), m \in Minutes, io \in IOPairs :
        /\ gamesFile' = updateGamePlaytime(id, m, "tracked_locally", io[1], io[2])
        /\ watcher' = [watcher EXCEPT !.credited =
                          IF io = <<"ok", "ok">>
                          THEN Append(@, [gameId |-> id, minutes |-> m])
                          ELSE @]
    /\ UNCHANGED <<clock, ops, lastOp, machine, walk, scanVars>>

NextRace ==
    \/ ScanStart
    \/ ScanAdapter
    \/ DeepScan
    \/ ScanDedup
    \/ ScanMerge
    \/ TrackerWrite

SpecRace == Init /\ [][NextRace]_vars

RECURSIVE CreditedTo(_, _)
\* the minutes of the log that were credited to the record id
CreditedTo(log, id) ==
    IF log = <<>> THEN 0
    ELSE (IF Head(log).gameId = id THEN Head(log).minutes ELSE 0) + CreditedTo(Tail(log), id)

trackedLocally(g) == IF IsSet(g.playtimeData) THEN Val(g.playtimeData).tracked_locally ELSE 0

\* C22: once the scan and the tracker writes made during it have finished,
\* the stored playtime of every record of the catalog (playTime.totalMinutes
\* and playtimeData.tracked_locally) includes the minutes the tracker wrote
C22_TrackerWritesSurviveScan ==
    pc = "idle" =>
        \A id \in Ids(gamesFile) :
            /\ totalMinutes(Val(Stored(gamesFile, id))) >= CreditedTo(watcher.credited, id)
            /\ trackedLocally(Val(Stored(gamesFile, id))) >= CreditedTo(watcher.credited, id)

-----------------------------------------------------------------------------
(* The online title lookup: calculateSimilarity, fetchOnlineMetadata,
   findArtworkBetter, fetchWithRetry and the handlers that reach them.
   Titles are strings; the reply of the store search is a record, kind
   "error" for a failed or timed-out request, "empty" for no items, "item"
   for the first item.  The 10 s and 15 s timeouts are replies of kind
   "error". *)

Min3(a, b, c) == IF a <= b /\ a <= c THEN a ELSE IF b <= c THEN b ELSE c

RECURSIVE levRow(_, _, _, _, _)
\* row i of the matrix of levenshteinDistance, filled left to right; column j
\* is held at position j + 1
levRow(str1, str2, i, prev, cur) ==
    LET j == Len(cur)
    IN  IF j > Len(str1) THEN cur
        ELSE levRow(str1, str2, i, prev,
                    Append(cur, IF CharAt(str2, i) = CharAt(str1, j)
                                THEN prev[j]
                                ELSE Min3(prev[j] + 1, cur[j] + 1, prev[j + 1] + 1)))

RECURSIVE levRows(_, _, _, _)
levRows(str1, str2, i, prev) ==
    IF i > Len(str2) THEN prev
    ELSE levRows(str1, str2, i + 1, levRow(str1, str2, i, prev, <<i>>))

levenshteinDistance(str1, str2) ==
    levRows(str1, str2, 1, [j \in 1..(Len(str1) + 1) |-> j - 1])[Len(str1) + 1]

\* calculateSimilarity: the quotient is kept as numerator and denominator
calculateSimilarity(str1, str2) ==
    LET longer == IF Len(str1) > Len(str2) THEN str1 ELSE str2
        shorter == IF Len(str1) > Len(str2) THEN str2 ELSE str1
    IN  IF Len(longer) = 0 THEN [num |-> 1, den |-> 1]
        ELSE [num |-> Len(longer) - levenshteinDistance(longer, shorter), den |-> Len(longer)]

\* similarity < 0.6
BelowThreshold(similarity) == similarity.num * 10 < 6 * similarity.den

NoMetadata == <<>>

\* the metadata built from the first item of the store's answer
artworkOf(item) ==
    [name |-> item.name,
     cover |-> "steam/apps/" \o item.id \o "/library_600x900_2x.jpg",
     background |-> "steam/apps/" \o item.id \o "/library_hero.jpg"]

\* fetchOnlineMetadata without the comparison of the titles: any reply with an id is taken
fetchOnlineMetadataAnyTitle(searchTerm, originalName, reply) ==
    IF reply.kind = "item" /\ reply.id # ""
    THEN <<artworkOf(reply)>>
    ELSE NoMetadata

\* fetchOnlineMetadata(searchTerm, originalName) when the store answers reply
fetchOnlineMetadata(searchTerm, originalName, reply) ==
    IF reply.kind = "item" /\ reply.id # ""
    THEN LET foundName == toLowerCase(reply.name)
             searchLower == toLowerCase(IF originalName # "" THEN originalName ELSE searchTerm)
         IN  IF BelowThreshold(calculateSimilarity(foundName, searchLower))
             THEN NoMetadata
             ELSE <<artworkOf(reply)>>
    ELSE NoMetadata

Whitespace == {" "}

AlphaNumeric == Chars(UpperCase) \cup LowerLetters \cup DecimalDigits

RECURSIVE keepChars(_, _)
\* s.replace(/[^class]/g, '')
keepChars(s, class) ==
    IF Len(s) = 0 THEN ""
    ELSE (IF CharAt(s, 1) \in class THEN CharAt(s, 1) ELSE "") \o keepChars(SubSeq(s, 2, Len(s)), class)

editionWords == {"edition", "remastered", "complete", "gold", "ultimate", "original", "classic"}

\* \w of a title, both cases
TitleWordChars == AlphaNumeric \cup {"_"}

\* one of the edition words stands at index i of s between word boundaries
editionWordAt(s, i) ==
    { w \in editionWords :
        /\ i + Len(w) - 1 <= Len(s)
        /\ toLowerCase(SubSeq(s, i, i + Len(w) - 1)) = w
        /\ i = 1 \/ CharAt(s, i - 1) \notin TitleWordChars
        /\ i + Len(w) > Len(s) \/ CharAt(s, i + Len(w)) \notin TitleWordChars }

RECURSIVE dropEditionWords(_, _)
\* s.replace(/\b(Edition|Remastered|...)\b/gi, '') from index i on
dropEditionWords(s, i) ==
    IF i > Len(s) THEN ""
    ELSE IF editionWordAt(s, i) # {}
         THEN dropEditionWords(s, i + Len(CHOOSE w \in editionWordAt(s, i) : TRUE))
         ELSE CharAt(s, i) \o dropEditionWords(s, i + 1)

RECURSIVE trim(_)
\* String.prototype.trim
trim(s) ==
    IF Len(s) = 0 THEN s
    ELSE IF CharAt(s, 1) \in Whitespace THEN trim(SubSeq(s, 2, Len(s)))
    ELSE IF CharAt(s, Len(s)) \in Whitespace THEN trim(SubSeq(s, 1, Len(s) - 1))
    ELSE s

\* the search terms of findArtworkBetter: non-empty, first occurrences only
variations(gameName) ==
    LET all == <<gameName,
                 keepChars(gameName, AlphaNumeric \cup Whitespace),
                 trim(dropEditionWords(gameName, 1))>>
        Kept == { i \in 1..3 : all[i] # "" /\ \A j \in 1..(i - 1) : all[j] # all[i] }
    IN  (IF 1 \in Kept THEN <<all[1]>> ELSE <<>>) \o (IF 2 \in Kept THEN <<all[2]>> ELSE <<>>)
            \o (IF 3 \in Kept THEN <<all[3]>> ELSE <<>>)

RECURSIVE tryVariations(_, _, _, _)
\* the loop of findArtworkBetter over the search terms left; replies[k] answers
\* the k-th request of the call, calls lists the terms requested so far
tryVariations(left, gameName, replies, calls) ==
    IF left = <<>> THEN [metadata |-> NoMetadata, calls |-> calls]
    ELSE LET metadata == fetchOnlineMetadata(Head(left), gameName, replies[Len(calls) + 1])
             asked == Append(calls, Head(left))
         IN  IF metadata # NoMetadata THEN [metadata |-> metadata, calls |-> asked]
             ELSE tryVariations(Tail(left), gameName, replies, asked)

\* findArtworkBetter(gameName, itemType)
findArtworkBetter(gameName, itemType, replies) ==
    IF itemType = "app" THEN [metadata |-> NoMetadata, calls |-> <<>>]
    ELSE tryVariations(variations(gameName), gameName, replies, <<>>)

\* an omitted itemType argument takes the default of the parameter
itemTypeArgument(itemType) == IF itemType = Undefined THEN "game" ELSE itemType

\* enrichGameMetadata asks for artwork
needsArtwork(game) == game.coverImage = "" \/ includes(game.coverImage, "null")

\* fetchWithRetry(game): the candidate passed on and the requests made
fetchWithRetry(game, replies) ==
    LET found == findArtworkBetter(game.name, itemTypeArgument(game.itemType), replies)
    IN  [game |-> IF found.metadata # NoMetadata
                  THEN [game EXCEPT !.coverImage = Head(found.metadata).cover,
                                    !.backgroundImage = Head(found.metadata).background]
                  ELSE game,
         calls |-> found.calls]

-----------------------------------------------------------------------------
(* The three paths to the title lookup, each applied to one item and one
   run of answers of the store *)

GameTitles == {"Halo", "HALO", "Ab Gold", "abcde", ""}

StoreTitles == {"Halo", "ab gol", "abcxy", "abxyz"}

\* what the store search answers to one request
Replies ==
    {[kind |-> "error", id |-> "", name |-> ""], [kind |-> "empty", id |-> "", name |-> ""]}
        \cup [kind : {"item"}, id : {"7"}, name : StoreTitles]

LookupItems ==
    [name : GameTitles, itemType : {"game", "app", Undefined},
     coverImage : {"", "local.jpg"}, backgroundImage : {""}]
        \cup {[name |-> "Halo", itemType |-> "game", coverImage |-> "art/null.jpg",
               backgroundImage |-> "hero.jpg"]}

InitLookup ==
    /\ gamesFile = <<>>
    /\ clock = 0
    /\ ops = 0
    /\ lastOp = NoOp
    /\ pc = "idle"
    /\ scanKind = "none"
    /\ machine = EmptyMachine
    /\ scanIdx = 1
    /\ allApps = <<>>
    /\ invoked = <<>>
    /\ failedUnits = {}
    /\ pending = <<>>
    /\ scanResult = NoResult
    /\ discovered = {}
    /\ runs = [k \in ScanKinds |-> 0]
    /\ watcher = NoWatcher
    /\ \E game \in LookupItems, replies \in [1..3 -> Replies] :
        walk = [op |-> "called", args |-> [game |-> game, replies |-> replies],
                out |-> [game |-> game, calls |-> <<>>]]

\* the item with the artwork of found stored on it, if any was found
withArtwork(game, found) ==
    [game |-> IF found.metadata # NoMetadata
              THEN [game EXCEPT !.coverImage = Head(found.metadata).cover,
                                !.backgroundImage = Head(found.metadata).background]
              ELSE game,
     calls |-> found.calls]

LookupStep(op, out) ==
    /\ walk.op = "called"
    /\ walk' = [walk EXCEPT !.op = op, !.out = out]
    /\ UNCHANGED <<gamesFile, clock, ops, lastOp, pc, scanKind, machine, scanIdx, allApps,
                   invoked, failedUnits, pending, scanResult, discovered, runs, watcher>>

\* one element of a batch of enrichGameMetadata
EnrichCandidate ==
    LookupStep("enrichGameMetadata",
               IF needsArtwork(walk.args.game)
               THEN fetchWithRetry(walk.args.game, walk.args.replies)
               ELSE [game |-> walk.args.game, calls |-> <<>>])

\* the games:searchArtwork handler: findArtworkBetter(name), no itemType
SearchArtwork ==
    LookupStep("searchArtwork",
               withArtwork(walk.args.game,
                           findArtworkBetter(walk.args.game.name, itemTypeArgument(Undefined),
                                             walk.args.replies)))

\* one iteration of searchArtworkForAllGames
SearchArtworkForAllGames ==
    LookupStep("searchArtworkForAllGames",
               IF walk.args.game.itemType = "app"
               THEN [game |-> walk.args.game, calls |-> <<>>]
               ELSE withArtwork(walk.args.game,
                                findArtworkBetter(walk.args.game.name,
                                                  itemTypeArgument(walk.args.game.itemType),
                                                  walk.args.replies)))

NextLookup == EnrichCandidate \/ SearchArtwork \/ SearchArtworkForAllGames

SpecLookup == InitLookup /\ [][NextLookup]_vars

LookedUp == walk.op \in {"enrichGameMetadata", "searchArtwork", "searchArtworkForAllGames"}

RECURSIVE EditDistance(_, _)
\* the edit distance by its definition: fewest insertions, deletions and
\* substitutions of one character that turn a into b
EditDistance(a, b) ==
    IF Len(a) = 0 THEN Len(b)
    ELSE IF Len(b) = 0 THEN Len(a)
    ELSE IF CharAt(a, 1) = CharAt(b, 1)
         THEN EditDistance(SubSeq(a, 2, Len(a)), SubSeq(b, 2, Len(b)))
         ELSE 1 + Min3(EditDistance(SubSeq(a, 2, Len(a)), b),
                       EditDistance(a, SubSeq(b, 2, Len(b))),
                       EditDistance(SubSeq(a, 2, Len(a)), SubSeq(b, 2, Len(b))))

LongerLength(a, b) == IF Len(a) > Len(b) THEN Len(a) ELSE Len(b)

\* (longer length - edit distance) / longer length >= 0.6
SimilarEnough(a, b) ==
    \/ LongerLength(a, b) = 0
    \/ (LongerLength(a, b) - EditDistance(a, b)) * 10 >= 6 * LongerLength(a, b)

\* the lookup attached artwork to the item
ArtworkAttached == walk.out.game.coverImage # walk.args.game.coverImage

\* the answer to the k-th request is an item whose lower-cased title is
\* similar enough to the lower-cased name of the item looked up
Acceptable(k) ==
    LET reply == walk.args.replies[k]
    IN  /\ reply.kind = "item"
        /\ reply.id # ""
        /\ SimilarEnough(toLowerCase(reply.name), toLowerCase(walk.args.game.name))

\* C23 (as amended): artwork is attached exactly when the answer to the last
\* request made is an item whose lower-cased title has similarity >= 0.6 to the
\* lower-cased name of the item (not to the search term that was sent); every
\* earlier answer was not such an item; without an acceptable answer
\* coverImage and backgroundImage stay as they were.
C23_ArtworkOnlyForSimilarTitle ==
    LookedUp =>
        LET calls == walk.out.calls
        IN  /\ \A k \in 1..Len(calls) : Acceptable(k) <=> (k = Len(calls) /\ ArtworkAttached)
            /\ ArtworkAttached =>
                /\ calls # <<>>
                /\ walk.out.game.coverImage = artworkOf(walk.args.replies[Len(calls)]).cover
                /\ walk.out.game.backgroundImage = artworkOf(walk.args.replies[Len(calls)]).background
            /\ ~ArtworkAttached => walk.out.game = walk.args.game

\* artwork was attached on an answer whose title differs from the name only
\* in case, and on one that is close to the name but not to the term sent
C23_Witness ==
    /\ LookedUp
    /\ ArtworkAttached
    /\ ~SimilarEnough(walk.args.replies[Len(walk.out.calls)].name, walk.args.game.name)

\* C23 (as stated): artwork is attached only if the similarity between the
\* title that was queried and the title the lookup returned is at least 0.6,
\* and after a failed or lower-similarity lookup coverImage and
\* backgroundImage are unset.
C23_ArtworkOnlyAboveThreshold ==
    LookedUp =>
        LET calls == walk.out.calls
        IN  /\ ArtworkAttached =>
                SimilarEnough(calls[Len(calls)], walk.args.replies[Len(calls)].name)
            /\ (calls # <<>> /\ ~ArtworkAttached) =>
                walk.out.game.coverImage = "" /\ walk.out.game.backgroundImage = ""

\* every request of the run failed or timed out
AllRequestsFail == \A k \in 1..3 : walk.args.replies[k].kind = "error"

\* C24: a lookup for a candidate that fails is retried, 3 attempts in total,
\* before the candidate is passed on without artwork.
C24_FailedLookupRetried ==
    (/\ walk.op = "enrichGameMetadata"
     /\ needsArtwork(walk.args.game)
     /\ walk.args.game.itemType # "app"
     /\ walk.args.game.name # ""
     /\ AllRequestsFail)
        => /\ Len(walk.out.calls) = 3
           /\ walk.out.game = walk.args.game

\* C26: an item of itemType app is never sent to the title lookup, whether
\* by scan enrichment, by the bulk artwork search or by the artwork search
\* for one game.
C26_AppsNeverLookedUp ==
    (LookedUp /\ walk.args.game.itemType = "app") => walk.out.calls = <<>>

-----------------------------------------------------------------------------
(* enrichGameMetadata as a process: the for loop over the batches, the
   promises of one batch and the await of Promise.allSettled.  walk.out
   holds the locals: i (1-based), the indices whose fetchWithRetry promise
   is pending, the indices whose lookup was started, the number of items
   pushed to enriched.  A pending promise may settle in any order. *)

batchSize == 10

MaxBatchGames == 11

WithCover == [name |-> "Halo", itemType |-> "game", coverImage |-> "local.jpg", backgroundImage |-> ""]

WithoutCover == [name |-> "Halo", itemType |-> "game", coverImage |-> "", backgroundImage |-> ""]

\* the candidates of a scan: those of the launchers that supply a cover
\* first, the others after them
BatchInputs ==
    { [k \in 1..n |-> IF k <= c THEN WithCover ELSE WithoutCover] :
        n \in 0..MaxBatchGames, c \in 0..MaxBatchGames }

InitEnrich ==
    /\ gamesFile = <<>>
    /\ clock = 0
    /\ ops = 0
    /\ lastOp = NoOp
    /\ pc = "idle"
    /\ scanKind = "none"
    /\ machine = EmptyMachine
    /\ scanIdx = 1
    /\ allApps = <<>>
    /\ invoked = <<>>
    /\ failedUnits = {}
    /\ pending = <<>>
    /\ scanResult = NoResult
    /\ discovered = {}
    /\ runs = [k \in ScanKinds |-> 0]
    /\ watcher = NoWatcher
    /\ \E games \in BatchInputs :
        walk = [op |-> "loop", args |-> games,
                out |-> [i |-> 1, outstanding |-> {}, started |-> {}, enriched |-> 0]]

EnrichStep(op, out) ==
    /\ walk' = [walk EXCEPT !.op = op, !.out = out]
    /\ UNCHANGED <<gamesFile, clock, ops, lastOp, pc, scanKind, machine, scanIdx, allApps,
                   invoked, failedUnits, pending, scanResult, discovered, runs, watcher>>

\* the indices of games.slice(i, i + batchSize)
batchOf(i, n) == { k \in i..(i + batchSize - 1) : k <= n }

\* the loop without batches: every remaining candidate is mapped at once
BatchStartUnbounded ==
    /\ walk.op = "loop"
    /\ walk.out.i <= Len(walk.args)
    /\ LET batch == walk.out.i..Len(walk.args)
           fetched == { k \in batch : needsArtwork(walk.args[k]) }
       IN  EnrichStep("await", [walk.out EXCEPT !.outstanding = fetched,
                                                !.started = @ \cup fetched])

\* batch.map: fetchWithRetry is called for every candidate of the batch that
\* needs artwork, the others are resolved promises
BatchStart ==
    /\ walk.op = "loop"
    /\ walk.out.i <= Len(walk.args)
    /\ LET batch == batchOf(walk.out.i, Len(walk.args))
           fetched == { k \in batch : needsArtwork(walk.args[k]) }
       IN  EnrichStep("await", [walk.out EXCEPT !.outstanding = fetched,
                                                !.started = @ \cup fetched])

\* the promise of one fetchWithRetry settles
LookupSettles ==
    /\ walk.op = "await"
    /\ \E k \in walk.out.outstanding :
        EnrichStep("await", [walk.out EXCEPT !.outstanding = @ \ {k}])

\* Promise.allSettled resolves: the results are pushed, i += batchSize
BatchCollect ==
    /\ walk.op = "await"
    /\ walk.out.outstanding = {}
    /\ EnrichStep("loop",
                  [walk.out EXCEPT
                      !.enriched = @ + Cardinality(batchOf(walk.out.i, Len(walk.args))),
                      !.i = @ + batchSize])

\* the loop ends: return enriched
EnrichReturn ==
    /\ walk.op = "loop"
    /\ walk.out.i > Len(walk.args)
    /\ EnrichStep("returned", walk.out)

NextEnrich == BatchStart \/ LookupSettles \/ BatchCollect \/ EnrichReturn

SpecEnrich == InitEnrich /\ [][NextEnrich]_vars

\* C25: at any moment at most 10 lookups are outstanding, every outstanding
\* lookup belongs to the batch being awaited, and every lookup started for
\* an earlier batch has settled; the result has one entry per candidate.
C25_BatchesBoundLookups ==
    /\ Cardinality(walk.out.outstanding) <= batchSize
    /\ walk.out.outstanding \subseteq batchOf(walk.out.i, Len(walk.args))
    /\ \A k \in walk.out.started : k < walk.out.i => k \notin walk.out.outstanding
    /\ walk.op = "loop" => walk.out.outstanding = {}
    /\ walk.op = "returned" => walk.out.enriched = Len(walk.args)

\* a lookup of the second batch is outstanding after ten of the first settled
C25_Witness ==
    /\ walk.op = "await"
    /\ walk.out.i = batchSize + 1
    /\ walk.out.outstanding # {}
    /\ Cardinality(walk.out.started) = batchSize + 1

-----------------------------------------------------------------------------
(* findExecutables on its own: one call per behaviour, on an install folder
   holding any of the files of FindPool.  Sizes are in half megabytes. *)

InstallFolder == <<"D:", "Games", "Hades">>

FindPool ==
    { [dir |-> InstallFolder, file |-> "Hades.exe", size |-> 4],
      [dir |-> InstallFolder, file |-> "Tiny.exe", size |-> 0],
      [dir |-> InstallFolder, file |-> "setup.exe", size |-> 20],
      [dir |-> InstallFolder, file |-> "readme.txt", size |-> 30],
      [dir |-> InstallFolder \o <<"Content">>, file |-> "Engine.exe", size |-> 9],
      [dir |-> InstallFolder \o <<"Content">>, file |-> "Small.exe", size |-> 0],
      [dir |-> InstallFolder \o <<"Content", "Win64">>, file |-> "Deep.exe", size |-> 6],
      [dir |-> InstallFolder \o <<"Content", "Win64", "Shipping">>, file |-> "Last.exe", size |-> 12] }

\* the depth argument: deepScanPC passes 1, the default is 2
Depths == {0, 1, 2}

InitFind ==
    /\ gamesFile = <<>>
    /\ clock = 0
    /\ ops = 0
    /\ lastOp = NoOp
    /\ pc = "idle"
    /\ scanKind = "none"
    /\ machine = EmptyMachine
    /\ scanIdx = 1
    /\ allApps = <<>>
    /\ invoked = <<>>
    /\ failedUnits = {}
    /\ pending = <<>>
    /\ scanResult = NoResult
    /\ discovered = {}
    /\ runs = [k \in ScanKinds |-> 0]
    /\ watcher = NoWatcher
    /\ \E disk \in SUBSET FindPool, depth \in Depths :
        walk = [op |-> "called", args |-> [disk |-> disk, depth |-> depth], out |-> {}]

\* the call returns
FindExecutables ==
    /\ walk.op = "called"
    /\ walk' = [walk EXCEPT !.op = "findExecutables",
                            !.out = findExecutables(walk.args.disk, InstallFolder, walk.args.depth)]
    /\ UNCHANGED <<gamesFile, clock, ops, lastOp, pc, scanKind, machine, scanIdx, allApps,
                   invoked, failedUnits, pending, scanResult, discovered, runs, watcher>>

NextFind == FindExecutables

SpecFind == InitFind /\ [][NextFind]_vars

\* the files of the disk within the search depth that pass the classifier
\* and are at least 0.5 MB
Qualifying ==
    { f \in walk.args.disk :
        /\ IsUnder(f.dir, InstallFolder)
        /\ Len(f.dir) - Len(InstallFolder) <= walk.args.depth
        /\ endsWith(f.file, ".exe")
        /\ isValidAppName(f.file, pathJoin(f.dir))
        /\ f.size >= HalfMegabyte }

\* C27: findExecutables returns at most one executable, the largest of those
\* within the search depth that pass the classifier and are at least 0.5 MB,
\* and nothing when none meets both.
C27_LargestQualifyingExecutable ==
    walk.op = "findExecutables" =>
        /\ Cardinality(walk.out) <= 1
        /\ walk.out \subseteq Qualifying
        /\ Qualifying # {} =>
            \E f \in walk.out : \A g \in Qualifying : g.size <= f.size

-----------------------------------------------------------------------------
(* scanFolder as a walk over the disk: which directories it lists and which
   executables become candidates.  The id (time and random number) and the
   cleaned name of a candidate are left out here. *)

dangerousPaths ==
    { "c:\\windows", "c:\\programdata", "c:\\program files\\common files",
      "c:\\system volume information", "c:\\$recycle.bin",
      "winsx", "system32", "syswow64", "drivers" }

\* the hard stop that is never taken
neverDangerous(folderPath) == FALSE

\* dangerousPaths.some(danger => lowerPath.includes(danger))
dangerous(folderPath) ==
    \E danger \in dangerousPaths : includes(toLowerCase(pathJoin(folderPath)), danger)

skipDirs ==
    { "node_modules", "temp", "cache", "windows", "system32", "programdata", "syswow64",
      "winsxs", "drivers" }

\* the directory entry is not recursed into
skipped(name) ==
    \/ startsWith(name, ".")
    \/ startsWith(name, "$")
    \/ \E skip \in skipDirs : includes(toLowerCase(name), skip)

folderCandidate(f) ==
    [executablePath |-> f.dir \o <<f.file>>, installPath |-> f.dir,
     launcher |-> "desktop", itemType |-> "app"]

RECURSIVE scanFolderWalk(_, _, _, _)
\* scanFolder(folderPath, depth, maxDepth): apps is what it returns, listed
\* the directories it called readdirSync on
scanFolderWalk(disk, folderPath, depth, maxDepth) ==
    IF depth > maxDepth THEN [apps |-> {}, listed |-> {}]
    ELSE IF ~existsSync(disk, folderPath) THEN [apps |-> {}, listed |-> {}]
    ELSE IF dangerous(folderPath) THEN [apps |-> {}, listed |-> {}]
    ELSE LET below == { scanFolderWalk(disk, sub, depth + 1, maxDepth) :
                          sub \in { d \in subdirectories(disk, folderPath) :
                                      ~skipped(d[Len(d)]) } }
         IN  [apps |-> { folderCandidate(f) : f \in validExecutables(disk, folderPath) }
                          \cup UNION { r.apps : r \in below },
              listed |-> {folderPath} \cup UNION { r.listed : r \in below }]

FolderRoots ==
    { <<"C:", "Program Files">>, <<"C:", "Program Files", "Common Files">>,
      <<"C:", "Windows", "Games">> }

FolderPool ==
    { [dir |-> <<"C:", "Program Files">>, file |-> "Krita.exe", size |-> 4],
      [dir |-> <<"C:", "Program Files", "Gimp">>, file |-> "Gimp.exe", size |-> 4],
      [dir |-> <<"C:", "Program Files", "Gimp", "Win64">>, file |-> "Deep.exe", size |-> 4],
      [dir |-> <<"C:", "Program Files", "Gimp", "Win64", "Shipping">>, file |-> "Last.exe", size |-> 4],
      [dir |-> <<"C:", "Program Files", "Common Files">>, file |-> "Gimp.exe", size |-> 4],
      [dir |-> <<"C:", "Program Files", "Common Files", "Adobe">>, file |-> "Krita.exe", size |-> 4],
      [dir |-> <<"C:", "Program Files", ".hidden">>, file |-> "Notes.exe", size |-> 4],
      [dir |-> <<"C:", "Windows", "Games">>, file |-> "Solitaire.exe", size |-> 4] }

\* maxDepth: scanApps passes 2, the default is 3
MaxDepths == {0, 1, 2}

InitFolder ==
    /\ gamesFile = <<>>
    /\ clock = 0
    /\ ops = 0
    /\ lastOp = NoOp
    /\ pc = "idle"
    /\ scanKind = "none"
    /\ machine = EmptyMachine
    /\ scanIdx = 1
    /\ allApps = <<>>
    /\ invoked = <<>>
    /\ failedUnits = {}
    /\ pending = <<>>
    /\ scanResult = NoResult
    /\ discovered = {}
    /\ runs = [k \in ScanKinds |-> 0]
    /\ watcher = NoWatcher
    /\ \E disk \in SUBSET FolderPool, root \in FolderRoots, maxDepth \in MaxDepths :
        walk = [op |-> "called",
                args |-> [disk |-> disk, root |-> root, maxDepth |-> maxDepth],
                out |-> [apps |-> {}, listed |-> {}]]

\* scanFolder(root, 0, maxDepth) returns
ScanFolder ==
    /\ walk.op = "called"
    /\ walk' = [walk EXCEPT !.op = "scanFolder",
                            !.out = scanFolderWalk(walk.args.disk, walk.args.root, 0,
                                                   walk.args.maxDepth)]
    /\ UNCHANGED <<gamesFile, clock, ops, lastOp, pc, scanKind, machine, scanIdx, allApps,
                   invoked, failedUnits, pending, scanResult, discovered, runs, watcher>>

NextFolder == ScanFolder

SpecFolder == InitFolder /\ [][NextFolder]_vars

\* dir matches the hard deny-list
Denied(dir) ==
    \E danger \in dangerousPaths : includes(toLowerCase(pathJoin(dir)), danger)

\* C28: every candidate of scanFolder(root, 0, maxDepth) sits at most
\* maxDepth levels below root in a directory that does not match the hard
\* deny-list; a denied directory is never listed, and no directory more than
\* maxDepth levels below root is listed.
C28_ScanFolderBounded ==
    walk.op = "scanFolder" =>
        /\ \A app \in walk.out.apps :
            /\ IsUnder(app.installPath, walk.args.root)
            /\ Len(app.installPath) - Len(walk.args.root) <= walk.args.maxDepth
            /\ ~Denied(app.installPath)
            /\ app.installPath \in walk.out.listed
        /\ \A dir \in walk.out.listed :
            /\ ~Denied(dir)
            /\ Len(dir) - Len(walk.args.root) <= walk.args.maxDepth
        /\ Denied(walk.args.root) => walk.out.apps = {}

\* a candidate was found at the depth limit while a deeper executable and an
\* executable in a denied subdirectory were both left out
C28_Witness ==
    /\ walk.op = "scanFolder"
    /\ \E app \in walk.out.apps :
        Len(app.installPath) - Len(walk.args.root) = walk.args.maxDepth
    /\ \E f \in walk.args.disk :
        /\ IsUnder(f.dir, walk.args.root)
        /\ Len(f.dir) - Len(walk.args.root) > walk.args.maxDepth
    /\ \E f \in walk.args.disk :
        /\ IsUnder(f.dir, walk.args.root \o <<"Common Files">>)
        /\ Len(f.dir) - Len(walk.args.root) <= walk.args.maxDepth

-----------------------------------------------------------------------------
(* Launcher assignment against later scans *)

\* C29: addGames never replaces the launcher of a record whose
\* manualLauncherOverride is set and never clears that mark.
C29_ManualLauncherKept ==
    [][lastOp' = "addGames" =>
        \A id \in Ids(gamesFile) \cap Ids(gamesFile') :
            Val(Stored(gamesFile, id)).manualLauncherOverride =>
                /\ Val(Stored(gamesFile', id)).launcher = Val(Stored(gamesFile, id)).launcher
                /\ Val(Stored(gamesFile', id)).manualLauncherOverride]_vars

-----------------------------------------------------------------------------
(* ProcessWatcher: the two polling loops, checkSessionEnd and trackGame,
   with the processes of the machine and the catalog changing under them.
   The catalog holds one game, so a poll makes at most one write.  Reads and
   writes of games.json succeed here.  Time is counted per session: idle is
   the number of minutes since lastSeen, saturating at the first value past
   the warm buffer, and played is lastSeen - startTime in minutes, saturating
   at MaxPlayed.  A poll one minute after lastSeen may fall on either side of
   the 60000 ms buffer. *)

MaxStarts == 2

MaxPlayed == 2

\* minutes after which now - lastSeen > warmBufferMs for certain
PastWarmBuffer == 2

WatchedId == <<"steam", 1>>

WatchedExe == "hades.exe"

WatchedGame ==
    [id |-> WatchedId, name |-> Some(NameAb), launcher |-> "steam",
     executablePath |-> WatchedExe, lastPlayed |-> NoTime, playTime |-> None,
     playtimeData |-> None]

InitWatch ==
    /\ gamesFile = <<WatchedGame>>
    /\ clock = 0
    /\ ops = 0
    /\ lastOp = NoOp
    /\ pc = "idle"
    /\ scanKind = "none"
    /\ machine = EmptyMachine
    /\ scanIdx = 1
    /\ allApps = <<>>
    /\ invoked = <<>>
    /\ failedUnits = {}
    /\ pending = <<>>
    /\ scanResult = NoResult
    /\ discovered = {}
    /\ runs = [k \in ScanKinds |-> 0]
    /\ walk = NoWalk
    /\ watcher = [activeSessions |-> {}, credited |-> <<>>, running |-> {}, starts |-> 0]

WatchFrame ==
    UNCHANGED <<clock, ops, lastOp, pc, scanKind, machine, scanIdx, allApps, invoked,
                failedUnits, pending, scanResult, discovered, runs, walk>>

\* activeSessions.has / get / set / delete
hasSession(gameId) == \E s \in watcher.activeSessions : s.gameId = gameId

getSession(gameId) == CHOOSE s \in watcher.activeSessions : s.gameId = gameId

setSession(sessions, session) ==
    { s \in sessions : s.gameId # session.gameId } \cup {session}

deleteSession(sessions, gameId) == { s \in sessions : s.gameId # gameId }

newSession(gameId, exeName, isFocused) ==
    [gameId |-> gameId, exeName |-> exeName, isFocused |-> isFocused, idle |-> 0, played |-> 0]

\* session.lastSeen = Date.now()
seen(session) ==
    [session EXCEPT !.idle = 0,
                    !.played = IF @ + session.idle > MaxPlayed THEN MaxPlayed ELSE @ + session.idle]

isProcessRunning(exeName) == exeName \in watcher.running

\* the game is started outside Atlas
ProcessStarts ==
    /\ watcher.starts < MaxStarts
    /\ ~isProcessRunning(WatchedExe)
    /\ watcher' = [watcher EXCEPT !.running = @ \cup {WatchedExe}, !.starts = @ + 1]
    /\ UNCHANGED gamesFile
    /\ WatchFrame

\* the process of the game exits
ProcessStops ==
    /\ isProcessRunning(WatchedExe)
    /\ watcher' = [watcher EXCEPT !.running = @ \ {WatchedExe}]
    /\ UNCHANGED gamesFile
    /\ WatchFrame

\* launchGame for a game of launcher steam: the launcher is asked to run it,
\* updateLastPlayed, trackGame; the process comes up or it does not
LaunchGame ==
    /\ watcher.starts < MaxStarts
    /\ WatchedId \in Ids(gamesFile)
    /\ \E comesUp \in BOOLEAN :
        watcher' = [watcher EXCEPT
                       !.running = IF comesUp THEN @ \cup {WatchedExe} ELSE @,
                       !.starts = @ + 1,
                       !.activeSessions = setSession(@, newSession(WatchedId, WatchedExe, TRUE))]
    /\ gamesFile' = updateLastPlayed(WatchedId, "ok", "ok", clock)
    /\ WatchFrame

\* a minute passes
MinutePasses ==
    /\ watcher' = [watcher EXCEPT !.activeSessions =
                      { [s EXCEPT !.idle = IF @ < PastWarmBuffer THEN @ + 1 ELSE @] : s \in @ }]
    /\ UNCHANGED gamesFile
    /\ WatchFrame

\* games:delete while the watcher runs
DeleteWatched ==
    /\ WatchedId \in Ids(gamesFile)
    /\ gamesFile' = deleteGame(WatchedId, "ok", "ok")
    /\ UNCHANGED watcher
    /\ WatchFrame

\* checkSessionEnd(gameId, session); expired says whether
\* now - lastSeen > warmBufferMs
checkSessionEnd(gameId, session, expired) ==
    IF expired
    THEN /\ gamesFile' = IF session.played > 0
                         THEN updateGamePlaytime(gameId, session.played, "tracked_locally", "ok", "ok")
                         ELSE gamesFile
         /\ watcher' = [watcher EXCEPT
                           !.activeSessions = deleteSession(@, gameId),
                           !.credited = IF session.played > 0
                                        THEN Append(@, [gameId |-> gameId, minutes |-> session.played])
                                        ELSE @]
    ELSE UNCHANGED <<gamesFile, watcher>>

\* the outcomes of the comparison with the warm buffer for a session
Expiry(session) ==
    IF session.idle >= PastWarmBuffer THEN {TRUE}
    ELSE IF session.idle = 0 THEN {FALSE}
    ELSE BOOLEAN

\* one firing of the interval of startFocusedLoop
FocusedPoll ==
    /\ IF hasSession(WatchedId) /\ getSession(WatchedId).isFocused
       THEN LET session == getSession(WatchedId)
            IN  IF isProcessRunning(session.exeName)
                THEN /\ watcher' = [watcher EXCEPT !.activeSessions = setSession(@, seen(session))]
                     /\ UNCHANGED gamesFile
                ELSE \E expired \in Expiry(session) : checkSessionEnd(WatchedId, session, expired)
       ELSE UNCHANGED <<gamesFile, watcher>>
    /\ WatchFrame

\* the body of the loop of startBackgroundLoop for one game of the catalog
backgroundCheck(game) ==
    IF game.executablePath = ""
    THEN UNCHANGED <<gamesFile, watcher>>
    ELSE IF isProcessRunning(game.executablePath)
    THEN IF ~hasSession(game.id)
         THEN /\ watcher' = [watcher EXCEPT !.activeSessions =
                                setSession(@, newSession(game.id, game.executablePath, FALSE))]
              /\ gamesFile' = updateLastPlayed(game.id, "ok", "ok", clock)
         ELSE /\ watcher' = [watcher EXCEPT !.activeSessions =
                                setSession(@, seen(getSession(game.id)))]
              /\ UNCHANGED gamesFile
    ELSE IF hasSession(game.id) /\ ~getSession(game.id).isFocused
    THEN \E expired \in Expiry(getSession(game.id)) :
            checkSessionEnd(game.id, getSession(game.id), expired)
    ELSE UNCHANGED <<gamesFile, watcher>>

\* one firing of the interval of startBackgroundLoop
BackgroundPoll ==
    /\ LET allGames == loadGames("ok")
       IN  IF allGames = <<>> THEN UNCHANGED <<gamesFile, watcher>>
           ELSE backgroundCheck(allGames[1])
    /\ WatchFrame

NextWatch ==
    \/ ProcessStarts
    \/ ProcessStops
    \/ LaunchGame
    \/ MinutePasses
    \/ DeleteWatched
    \/ FocusedPoll
    \/ BackgroundPoll

SpecWatch == InitWatch /\ [][NextWatch]_vars

\* both intervals keep firing and time keeps passing
SpecWatchFair ==
    /\ InitWatch
    /\ [][NextWatch]_vars
    /\ WF_vars(FocusedPoll)
    /\ WF_vars(BackgroundPoll)
    /\ WF_vars(MinutePasses)

\* C30: a session whose process has stopped is eventually removed from
\* activeSessions (or its process is seen running again), for sessions
\* started by Atlas and sessions detected externally, whatever happens to
\* the catalog meanwhile.
C30_SessionsEventuallyFinalized ==
    (hasSession(WatchedId) /\ ~isProcessRunning(WatchedExe))
        ~> (~hasSession(WatchedId) \/ isProcessRunning(WatchedExe))


=============================================================================
